---- MODULE Spec2Model ----
(***************************************************************************)
(* Model of the Dynamiq agent service.                                     *)
(*                                                                         *)
(*   PoolSpec  the warm sandbox pool of src/agent/server.py: POST /warm    *)
(*             (with its leading cleanup_expired_sandboxes), the           *)
(*             background task _do_warm_sandbox, GET /warm/status and the  *)
(*             claim at the head of POST /run/stream.  The processes are   *)
(*             asyncio coroutines: a step of the model is the code         *)
(*             between two suspension points.                              *)
(*   RunSpec   one run request (POST /run/stream, or POST /run) from its   *)
(*             arrival at a pool that holds a ready entry: the claim, the  *)
(*             resolution of the handle, DynamiqAgent.run of               *)
(*             src/agent/main.py, the on_event callback, the event queue,  *)
(*             the relay loop and the release of the handle.               *)
(*   RebuildSpec  the reconstruction of the Completion message list from   *)
(*             the supplied history at the head of DynamiqAgent.run,       *)
(*             applied to every history of a bounded input set.            *)
(*   SetupSpec  DynamiqAgent.setup of one agent, applied to every agent    *)
(*             (with or without an existing sandbox id) and every way the  *)
(*             remote operations of setup turn out, within a bound.        *)
(*   TruncateSpec  the cut of a tool result for the message list and for   *)
(*             the tool_result event, applied to texts whose lengths lie   *)
(*             around the two limits.                                      *)
(*   SessionSpec  the pool while no entry expires, with the run requests   *)
(*             (POST /run/stream and POST /run) followed until they end:   *)
(*             which sandbox the agent of each works on.                   *)
(*   PoolLiveSpec  the pool under fair scheduling of its coroutines: the   *)
(*             holder of the lock goes on to release it, and a             *)
(*             provisioning task ends.                                     *)
(***************************************************************************)
EXTENDS Integers, Sequences, FiniteSets, TLC

\* ------------------------------------------------------------------ bounds
MaxWarm == 2          \* POST /warm requests (each starts at most one task)
MaxStream == 2        \* POST /run/stream requests
MaxTicks == 2         \* advances of the wall clock
MaxHistLen == 2       \* messages of a history passed to run
MaxHistCalls == 2     \* tool invocations declared on one history message
MaxBatch == 2         \* tool invocations requested by one Completion response
MaxSpecial == 1       \* Completion responses of a run that are not one plain invocation
MaxQueue == 2         \* events waiting in event_queue when the run task goes on
MaxStall == 3         \* last iteration in which a remote call stalls for 300 seconds
MaxFaults == 2        \* remote operations of one setup that fail
MaxOver == 15         \* how far from a limit the length of a tool result lies

\* --------------------------------------------------------- program constants
WARM_SANDBOX_TTL == 25 * 60
MAX_ITERATIONS == 15            \* for iteration in range(15)

Owners == {"u1", "u2"}
WReq == 1 .. MaxWarm
SReq == 1 .. MaxStream
\* Sandboxes by id: w is built by the provisioning task w, Fresh(s) by the
\* setup of run request s, Earlier is the sandbox of an earlier run, the
\* one a request names by its sandbox_id.
Fresh(s) == MaxWarm + s
Earlier == MaxWarm + MaxStream + 1
Sandboxes == 1 .. Earlier
TickDeltas == {1, WARM_SANDBOX_TTL}

None == 0                       \* Python None for sandbox ids and agents
Absent == [ready |-> FALSE, sandbox_id |-> None, agent |-> None, created_at |-> -1]
NoOwner == "-"
Free == <<"free", 0>>           \* warm_sandbox_lock not held

VARIABLES
    \* ---- server.py module state
    warm_sandbox_pool,   \* user_id -> entry, Absent when the key is missing
    pool_keys,           \* the keys of the dict in insertion order
    warm_sandbox_lock,   \* Free or the coroutine holding the asyncio.Lock
    now,                 \* time.time()
    ticks,
    \* ---- POST /warm requests
    wpc, wOwner, wExpired, wResp,
    \* ---- _do_warm_sandbox tasks (task w is started by request w) and the
    \*      sandbox each builds (sandbox id w); a task ends "done" (entry
    \*      marked ready), "torn_down" (entry gone) or "failed"
    tpc, sandbox,
    \* ---- POST /run/stream requests, up to the resolution of the handle
    spc, sOwner, sExplicit, sWarm, using_warm,
    sNamed,              \* the sandbox_id a run request carries, None without
    session,             \* the sandbox the AgentSession of a run request works on
    insertedBy,          \* per owner: the POST /warm that inserted the entry (history)
    \* ---- GET /warm/status: the last response (ready is status = "ready")
    lastStatus,
    \* ---- history
    claimedSince,        \* owner -> a claim succeeded and no /warm inserted since
    \* ---- DynamiqAgent.run (one run)
    messages_history,    \* self.messages_history
    messages,            \* the message list sent to the Completion
    rpc,                 \* position of the run task
    iteration,           \* iteration + 1 of the for loop
    batch,               \* msg.tool_calls of the current response
    tcIdx,               \* index in batch of the invocation being executed
    nextId,              \* the next invocation id the Completion hands out
    specials,
    result,              \* what run returned (or that it raised)
    \* ---- run_agent_stream.generate_events after the claim
    gpc,                 \* position of the generator
    callbacks,           \* loop.call_soon_threadsafe(event_queue.put_nowait, ..) not yet run
    event_queue,
    out,                 \* the events yielded to the listener
    sandbox_id,          \* the local sandbox_id of the request, None until set
    setups,              \* agent.setup() calls the request has made
    \* ---- history of the run
    emitted,             \* every event passed to emit, in order
    calls,               \* Completion calls made
    toolExecs,           \* _execute_tool calls made
    llmFailedAt,         \* [calls, toolExecs] when a Completion call failed
    \* ---- DynamiqAgent.setup of one agent
    selfAgent,           \* existing_sandbox_id, sandbox and sandbox_reused of the agent
    remote,              \* how each remote operation of setup turns out
    setupRet,            \* what setup returned or that it raised
    \* ---- the result of one tool execution on its way to the list and the event
    toolResult,          \* what _execute_tool returned
    appended,            \* the content of the tool message
    shown                \* the result field of the tool_result event

poolVars == <<warm_sandbox_pool, pool_keys, warm_sandbox_lock, now, ticks,
              wpc, wOwner, wExpired, wResp, tpc, sandbox,
              spc, sOwner, sExplicit, sWarm, using_warm, lastStatus,
              claimedSince, sNamed, session, insertedBy>>

\* what the request handler knows of its handle
gwVars == <<sandbox_id, setups>>

\* the agent and the tool result the two function specifications work on
fnVars == <<selfAgent, remote, setupRet, toolResult, appended, shown>>

runVars == <<messages_history, messages, rpc, iteration, batch, tcIdx, nextId,
             specials, result, gpc, callbacks, event_queue, out,
             emitted, calls, toolExecs, llmFailedAt, gwVars, fnVars>>

vars == <<poolVars, runVars>>

\* ----------------------------------------------------------------- helpers
\* sandboxes a run request took out of the pool
Claimed == {sWarm[s].sandbox_id : s \in SReq} \ {None}
\* sandboxes on which cleanup(keep_sandbox=False) ran
TornDown == {w \in WReq : sandbox[w] = "killed"}

\* Owners are interchangeable: the requests name them in the order of OwnerSeq.
OwnerSeq == <<"u1", "u2">>
UsedOwners == {wOwner[w] : w \in WReq} \cup {sOwner[s] : s \in SReq}
MayName(u) ==
    \A i \in 1 .. Len(OwnerSeq) :
        OwnerSeq[i] = u => \A j \in 1 .. i - 1 : OwnerSeq[j] \in UsedOwners

Present(u) == warm_sandbox_pool[u] # Absent

\* DynamiqAgent.cleanup(keep_sandbox) of an agent whose sandbox is id (None:
\* the agent has no sandbox): the sandboxes sb after it
cleanupKill(sb, id, keep_sandbox) ==
    IF id = None THEN sb ELSE [sb EXCEPT ![id] = "killed"]
cleanup(sb, id, keep_sandbox) ==
    IF id = None \/ keep_sandbox THEN sb ELSE [sb EXCEPT ![id] = "killed"]

RemoveAll(s, x) == <<>>

RECURSIVE Remove(_, _)
Remove(s, x) ==
    IF s = <<>> THEN <<>>
    ELSE IF Head(s) = x THEN Remove(Tail(s), x)
    ELSE <<Head(s)>> \o Remove(Tail(s), x)

RECURSIVE SelectExpiredFrom(_, _)
SelectExpiredFrom(keys, t) ==
    IF keys = <<>> THEN <<>>
    ELSE IF t - warm_sandbox_pool[Head(keys)].created_at >= WARM_SANDBOX_TTL
         THEN <<Head(keys)>> \o SelectExpiredFrom(Tail(keys), t)
         ELSE SelectExpiredFrom(Tail(keys), t)

RECURSIVE SelectExpired(_, _)
\* [uid for uid, info in pool.items() if now - info["created_at"] > TTL]
SelectExpired(keys, t) ==
    IF keys = <<>> THEN <<>>
    ELSE IF t - warm_sandbox_pool[Head(keys)].created_at > WARM_SANDBOX_TTL
         THEN <<Head(keys)>> \o SelectExpired(Tail(keys), t)
         ELSE SelectExpired(Tail(keys), t)

PoolInit ==
    /\ warm_sandbox_pool = [u \in Owners |-> Absent]
    /\ pool_keys = <<>>
    /\ warm_sandbox_lock = Free
    /\ now = 0
    /\ ticks = 0
    /\ wpc = [w \in WReq |-> "idle"]
    /\ wOwner = [w \in WReq |-> NoOwner]
    /\ wExpired = [w \in WReq |-> <<>>]
    /\ wResp = [w \in WReq |-> [status |-> "-", sandbox_id |-> None, message |-> "-"]]
    /\ tpc = [w \in WReq |-> "none"]
    /\ sandbox = [i \in Sandboxes |-> "none"]
    /\ spc = [s \in SReq |-> "idle"]
    /\ sOwner = [s \in SReq |-> NoOwner]
    /\ sExplicit = [s \in SReq |-> FALSE]
    /\ sWarm = [s \in SReq |-> [agent |-> None, sandbox_id |-> None]]
    /\ using_warm = [s \in SReq |-> FALSE]
    /\ lastStatus = [status |-> "-", sandbox_id |-> None]
    /\ claimedSince = [u \in Owners |-> FALSE]
    /\ sNamed = [s \in SReq |-> None]
    /\ session = [s \in SReq |-> None]
    /\ insertedBy = [u \in Owners |-> 0]

\* The wall clock advances.  Only ages (now - created_at) are ever read, so
\* the clock is left alone while the pool is empty.
Tick ==
    /\ ticks < MaxTicks
    /\ pool_keys # <<>>
    /\ \E d \in TickDeltas : now' = now + d
    /\ ticks' = ticks + 1
    /\ UNCHANGED <<warm_sandbox_pool, pool_keys, warm_sandbox_lock,
                   wpc, wOwner, wExpired, wResp, tpc, sandbox,
                   spc, sOwner, sExplicit, sWarm, using_warm, lastStatus,
                   claimedSince, sNamed, session, insertedBy>>
    /\ UNCHANGED runVars

\* ------------------------------------------------ cleanup_expired_sandboxes
\* POST /warm arrives and awaits cleanup_expired_sandboxes(), which gets the
\* lock: now = time.time(); expired = [...].  Nothing of the request is read
\* before the lock is held, so a request that waits for the lock is a request
\* that arrives later.  Requests are numbered in the order they get here.
CleanupAcquire(w) ==
    /\ wpc[w] = "idle"
    /\ \A v \in WReq : v < w => wpc[v] # "idle"
    /\ warm_sandbox_lock = Free
    /\ \E u \in Owners : MayName(u) /\ wOwner' = [wOwner EXCEPT ![w] = u]
    /\ warm_sandbox_lock' = <<"warm", w>>
    /\ wExpired' = [wExpired EXCEPT ![w] = SelectExpired(pool_keys, now)]
    /\ wpc' = [wpc EXCEPT ![w] = "evict"]
    /\ UNCHANGED <<warm_sandbox_pool, pool_keys, now, ticks,
                   wResp, tpc, sandbox,
                   spc, sOwner, sExplicit, sWarm, using_warm, lastStatus,
                   claimedSince, sNamed, session, insertedBy>>
    /\ UNCHANGED runVars

\* for uid in expired, the entry has no agent (still warming): nothing is
\* awaited, the entry is deleted at once.
EvictWarming(w) ==
    /\ wpc[w] = "evict"
    /\ wExpired[w] # <<>>
    /\ LET uid == Head(wExpired[w]) IN
        /\ warm_sandbox_pool[uid].agent = None
        /\ warm_sandbox_pool' = [warm_sandbox_pool EXCEPT ![uid] = Absent]
        /\ pool_keys' = Remove(pool_keys, uid)
    /\ wExpired' = [wExpired EXCEPT ![w] = Tail(@)]
    /\ UNCHANGED <<warm_sandbox_lock, now, ticks,
                   wpc, wOwner, wResp, tpc, sandbox,
                   spc, sOwner, sExplicit, sWarm, using_warm, lastStatus,
                   claimedSince, sNamed, session, insertedBy>>
    /\ UNCHANGED runVars

\* for uid in expired, the entry has an agent: await agent.cleanup(
\* keep_sandbox=False) suspends the coroutine, lock held, while a worker
\* thread kills the sandbox.
EvictKill(w) ==
    /\ wpc[w] = "evict"
    /\ wExpired[w] # <<>>
    /\ LET uid == Head(wExpired[w])
           agent == warm_sandbox_pool[uid].agent IN
        /\ agent # None
        /\ sandbox' = cleanup(sandbox, agent, FALSE)
    /\ wpc' = [wpc EXCEPT ![w] = "evict_del"]
    /\ UNCHANGED <<warm_sandbox_pool, pool_keys, warm_sandbox_lock, now, ticks,
                   wOwner, wExpired, wResp, tpc,
                   spc, sOwner, sExplicit, sWarm, using_warm, lastStatus,
                   claimedSince, sNamed, session, insertedBy>>
    /\ UNCHANGED runVars

\* the coroutine resumes after cleanup: del warm_sandbox_pool[uid]
EvictDel(w) ==
    /\ wpc[w] = "evict_del"
    /\ LET uid == Head(wExpired[w]) IN
        /\ warm_sandbox_pool' = [warm_sandbox_pool EXCEPT ![uid] = Absent]
        /\ pool_keys' = Remove(pool_keys, uid)
    /\ wExpired' = [wExpired EXCEPT ![w] = Tail(@)]
    /\ wpc' = [wpc EXCEPT ![w] = "evict"]
    /\ UNCHANGED <<warm_sandbox_lock, now, ticks,
                   wOwner, wResp, tpc, sandbox,
                   spc, sOwner, sExplicit, sWarm, using_warm, lastStatus,
                   claimedSince, sNamed, session, insertedBy>>
    /\ UNCHANGED runVars

\* end of the for loop: the lock is released and warm_sandbox goes on to
\* its own async with warm_sandbox_lock.
CleanupReleaseKeeps(w) ==
    /\ wpc[w] = "evict"
    /\ wExpired[w] = <<>>
    /\ wpc' = [wpc EXCEPT ![w] = "insert_wait"]
    /\ UNCHANGED <<warm_sandbox_pool, pool_keys, warm_sandbox_lock, now, ticks,
                   wOwner, wExpired, wResp, tpc, sandbox,
                   spc, sOwner, sExplicit, sWarm, using_warm, lastStatus,
                   claimedSince, sNamed, session, insertedBy>>
    /\ UNCHANGED runVars

CleanupRelease(w) ==
    /\ wpc[w] = "evict"
    /\ wExpired[w] = <<>>
    /\ warm_sandbox_lock' = Free
    /\ wpc' = [wpc EXCEPT ![w] = "insert_wait"]
    /\ UNCHANGED <<warm_sandbox_pool, pool_keys, now, ticks,
                   wOwner, wExpired, wResp, tpc, sandbox,
                   spc, sOwner, sExplicit, sWarm, using_warm, lastStatus,
                   claimedSince, sNamed, session, insertedBy>>
    /\ UNCHANGED runVars

\* ------------------------------------------------------------- warm_sandbox
\* if req.user_id in warm_sandbox_pool
HasReadyEntryOnly(uid) == Present(uid) /\ warm_sandbox_pool[uid].ready
HasEntry(uid) == Present(uid)

\* warm_sandbox_pool[req.user_id] = {"sandbox_id": None, "agent": None,
\*                                   "created_at": time.time(), "ready": False}
WarmingEntryReady(t) ==
    [ready |-> TRUE, sandbox_id |-> None, agent |-> None, created_at |-> t]
WarmingEntry(t) ==
    [ready |-> FALSE, sandbox_id |-> None, agent |-> None, created_at |-> t]

\* the WarmResponse for an owner whose entry is info
ExistingResponseWarming(info) ==
    [status |-> "warming", sandbox_id |-> info.sandbox_id,
     message |-> "Sandbox is being initialized"]
ExistingResponse(info) ==
    IF info.ready
    THEN [status |-> "ready", sandbox_id |-> info.sandbox_id,
          message |-> "Sandbox already warmed and ready"]
    ELSE [status |-> "warming", sandbox_id |-> info.sandbox_id,
          message |-> "Sandbox is being initialized"]

\* async with warm_sandbox_lock: report the existing entry, or insert a
\* warming entry and, after the lock is released, create the background
\* task.  Nothing is awaited between the acquire and create_task.
WarmInsert(w) ==
    /\ wpc[w] = "insert_wait"
    /\ warm_sandbox_lock = Free
    /\ LET uid == wOwner[w]
           info == warm_sandbox_pool[uid] IN
        IF HasEntry(uid)
        THEN /\ wResp' = [wResp EXCEPT ![w] = ExistingResponse(info)]
             /\ UNCHANGED <<warm_sandbox_pool, pool_keys, tpc, claimedSince, insertedBy>>
        ELSE /\ warm_sandbox_pool' = [warm_sandbox_pool EXCEPT ![uid] =
                    WarmingEntry(now)]
             /\ pool_keys' = Append(pool_keys, uid)
             /\ tpc' = [tpc EXCEPT ![w] = "setup"]
             /\ wResp' = [wResp EXCEPT ![w] =
                    [status |-> "warming", sandbox_id |-> None,
                     message |-> "Sandbox warming started"]]
             /\ claimedSince' = [claimedSince EXCEPT ![uid] = FALSE]
             /\ insertedBy' = [insertedBy EXCEPT ![uid] = w]
    /\ wpc' = [wpc EXCEPT ![w] = "done"]
    /\ UNCHANGED <<warm_sandbox_lock, now, ticks, wOwner, wExpired, sandbox,
                   spc, sOwner, sExplicit, sWarm, using_warm, lastStatus,
                   sNamed, session>>
    /\ UNCHANGED runVars

\* --------------------------------------------------------- _do_warm_sandbox
\* warm_sandbox_pool[req.user_id].update({"sandbox_id": sandbox_id,
\*                                        "agent": agent, "ready": True})
MarkReadyOnly(info, id, agent) == [info EXCEPT !.ready = TRUE]
MarkReady(info, id, agent) ==
    [info EXCEPT !.sandbox_id = id, !.agent = agent, !.ready = TRUE]

\* req.user_id of the request the task was started for: the key under which
\* the task looks up and updates the pool
TaskKeyFirst(w) == OwnerSeq[1]
TaskKey(w) == wOwner[w]

\* sandbox_id = await agent.setup() returns, the sandbox exists and is set
\* up, and the task gets the lock (a task that waits for the lock is a task
\* whose setup returns later):
\*     if req.user_id in warm_sandbox_pool: update({..., "ready": True})
\* Otherwise await agent.cleanup(keep_sandbox=False) suspends the task with
\* the lock held.
TaskUpdate(w) ==
    /\ tpc[w] = "setup"
    /\ warm_sandbox_lock = Free
    /\ sandbox' = [sandbox EXCEPT ![w] = "alive"]
    /\ LET uid == TaskKey(w) IN
        IF Present(uid)
        THEN /\ warm_sandbox_pool' = [warm_sandbox_pool EXCEPT ![uid] =
                    MarkReady(@, w, w)]
             /\ tpc' = [tpc EXCEPT ![w] = "done"]
             /\ UNCHANGED warm_sandbox_lock
        ELSE /\ warm_sandbox_lock' = <<"task", w>>
             /\ tpc' = [tpc EXCEPT ![w] = "cleanup"]
             /\ UNCHANGED warm_sandbox_pool
    /\ UNCHANGED <<pool_keys, now, ticks,
                   wpc, wOwner, wExpired, wResp,
                   spc, sOwner, sExplicit, sWarm, using_warm, lastStatus,
                   claimedSince, sNamed, session, insertedBy>>
    /\ UNCHANGED runVars

\* the kill of agent.cleanup(keep_sandbox=False) is over; the lock is released.
TaskCleanupInsert(w) ==
    /\ tpc[w] = "cleanup"
    /\ warm_sandbox_pool' = [warm_sandbox_pool EXCEPT ![wOwner[w]] =
            MarkReady(WarmingEntry(now), w, w)]
    /\ pool_keys' = Append(pool_keys, wOwner[w])
    /\ warm_sandbox_lock' = Free
    /\ tpc' = [tpc EXCEPT ![w] = "torn_down"]
    /\ UNCHANGED <<now, ticks, sandbox,
                   wpc, wOwner, wExpired, wResp,
                   spc, sOwner, sExplicit, sWarm, using_warm, lastStatus,
                   claimedSince, sNamed, session, insertedBy>>
    /\ UNCHANGED runVars

TaskCleanup(w) ==
    /\ tpc[w] = "cleanup"
    /\ sandbox' = cleanup(sandbox, w, FALSE)
    /\ warm_sandbox_lock' = Free
    /\ tpc' = [tpc EXCEPT ![w] = "torn_down"]
    /\ UNCHANGED <<warm_sandbox_pool, pool_keys, now, ticks,
                   wpc, wOwner, wExpired, wResp,
                   spc, sOwner, sExplicit, sWarm, using_warm, lastStatus,
                   claimedSince, sNamed, session, insertedBy>>
    /\ UNCHANGED runVars

\* agent.setup() raises, before Sandbox.create returned or in one of the
\* provisioning steps after it (then the sandbox exists), and the task gets
\* the lock:
\*     if req.user_id in warm_sandbox_pool: del warm_sandbox_pool[req.user_id]
TaskFail(w) ==
    /\ tpc[w] = "setup"
    /\ warm_sandbox_lock = Free
    /\ \E created \in BOOLEAN :
          sandbox' = [sandbox EXCEPT ![w] = IF created THEN "alive" ELSE @]
    /\ LET uid == TaskKey(w) IN
        /\ warm_sandbox_pool' = [warm_sandbox_pool EXCEPT ![uid] = Absent]
        /\ pool_keys' = Remove(pool_keys, uid)
    /\ tpc' = [tpc EXCEPT ![w] = "failed"]
    /\ UNCHANGED <<warm_sandbox_lock, now, ticks,
                   wpc, wOwner, wExpired, wResp,
                   spc, sOwner, sExplicit, sWarm, using_warm, lastStatus,
                   claimedSince, sNamed, session, insertedBy>>
    /\ UNCHANGED runVars

\* -------------------------------------------------------------- warm_status
\* GET /warm/status/{user_id}: reads the dict without taking the lock.
StatusOf(user_id) ==
    LET info == warm_sandbox_pool[user_id] IN
    IF ~Present(user_id)
    THEN [status |-> "none", sandbox_id |-> None]
    ELSE [status |-> IF info.ready THEN "ready" ELSE "warming",
          sandbox_id |-> info.sandbox_id]

warm_statusLocked(user_id) ==
    /\ warm_sandbox_lock = Free
    /\ lastStatus' = StatusOf(user_id)
    /\ UNCHANGED <<warm_sandbox_pool, pool_keys, warm_sandbox_lock, now, ticks,
                   wpc, wOwner, wExpired, wResp, tpc, sandbox,
                   spc, sOwner, sExplicit, sWarm, using_warm,
                   claimedSince, sNamed, session, insertedBy>>
    /\ UNCHANGED runVars

warm_status(user_id) ==
    /\ lastStatus' = StatusOf(user_id)
    /\ UNCHANGED <<warm_sandbox_pool, pool_keys, warm_sandbox_lock, now, ticks,
                   wpc, wOwner, wExpired, wResp, tpc, sandbox,
                   spc, sOwner, sExplicit, sWarm, using_warm,
                   claimedSince, sNamed, session, insertedBy>>
    /\ UNCHANGED runVars

\* ------------------------------------- run_agent_stream: the warm-pool claim
\* warm_info = warm_sandbox_pool.pop(req.user_id): the pool after it
ClaimGet(uid) == warm_sandbox_pool
ClaimPop(uid) == [warm_sandbox_pool EXCEPT ![uid] = Absent]

\* req.sandbox_id of a run request: the id the last GET /warm/status
\* answered, or else the sandbox of an earlier run
Names(explicit) ==
    IF ~explicit THEN None
    ELSE IF lastStatus.sandbox_id # None THEN lastStatus.sandbox_id
    ELSE Earlier

\* async with warm_sandbox_lock of generate_events: entered when no
\* coroutine holds the lock
ClaimAcquiresHeld == TRUE
ClaimAcquires == warm_sandbox_lock = Free

\* POST /run/stream arrives with its user_id and with or without a
\* sandbox_id; generate_events runs up to the lock without suspending.
\* async with warm_sandbox_lock:
\*     if user_id in pool and pool[user_id].get("ready"): warm_info = pool.pop(user_id)
\* if warm_agent and warm_sandbox_id and not req.sandbox_id: using_warm = True
StreamClaim(s) ==
    /\ spc[s] = "idle"
    /\ \A r \in SReq : r < s => spc[r] # "idle"
    /\ ClaimAcquires
    /\ \E uid \in Owners, explicit \in BOOLEAN :
       LET info == warm_sandbox_pool[uid] IN
        /\ MayName(uid)
        /\ sOwner' = [sOwner EXCEPT ![s] = uid]
        /\ sExplicit' = [sExplicit EXCEPT ![s] = explicit]
        /\ sNamed' = [sNamed EXCEPT ![s] = Names(explicit)]
        /\ IF Present(uid) /\ info.ready
          THEN /\ warm_sandbox_pool' = ClaimPop(uid)
               /\ pool_keys' = Remove(pool_keys, uid)
               /\ sWarm' = [sWarm EXCEPT ![s] =
                               [agent |-> info.agent, sandbox_id |-> info.sandbox_id]]
               /\ using_warm' = [using_warm EXCEPT ![s] =
                     info.agent # None /\ info.sandbox_id # None /\ ~explicit]
               /\ claimedSince' = [claimedSince EXCEPT ![uid] = TRUE]
          ELSE /\ UNCHANGED <<warm_sandbox_pool, pool_keys, sWarm, using_warm,
                              claimedSince>>
    /\ spc' = [spc EXCEPT ![s] = "resolved"]
    /\ UNCHANGED <<warm_sandbox_lock, now, ticks,
                   wpc, wOwner, wExpired, wResp, tpc, sandbox,
                   lastStatus, session, insertedBy>>
    /\ UNCHANGED runVars

\* ------------------------------------------- the sessions of the run requests
\* what agent.setup() of a request that names the sandbox named can return:
\* named when the reconnect works, or else a new sandbox
Connects(named) ==
    IF named # None /\ sandbox[named] = "alive" THEN {named} ELSE {}
Targets(s) ==
    IF using_warm[s] THEN {sWarm[s].sandbox_id}
    ELSE Connects(sNamed[s]) \cup {Fresh(s)}

\* POST /run/stream after the claim: the warm agent is taken as it is, or
\* agent.setup() returns; from here the agent of the request works on its
\* sandbox (uploads, then the commands of the run).
StreamSetup(s) ==
    /\ spc[s] = "resolved"
    /\ \E id \in Targets(s) :
        /\ session' = [session EXCEPT ![s] = id]
        /\ sandbox' = [sandbox EXCEPT ![id] = "alive"]
    /\ spc' = [spc EXCEPT ![s] = "running"]
    /\ UNCHANGED <<warm_sandbox_pool, pool_keys, warm_sandbox_lock, now, ticks,
                   wpc, wOwner, wExpired, wResp, tpc,
                   sOwner, sExplicit, sWarm, using_warm, lastStatus,
                   claimedSince, sNamed, insertedBy>>
    /\ UNCHANGED runVars

\* POST /run: no claim; agent.setup() on req.sandbox_id returns and the run
\* starts.
RunSetup(s) ==
    /\ spc[s] = "idle"
    /\ \A r \in SReq : r < s => spc[r] # "idle"
    /\ \E uid \in Owners, explicit \in BOOLEAN :
        /\ MayName(uid)
        /\ sOwner' = [sOwner EXCEPT ![s] = uid]
        /\ sExplicit' = [sExplicit EXCEPT ![s] = explicit]
        /\ sNamed' = [sNamed EXCEPT ![s] = Names(explicit)]
        /\ \E id \in Connects(Names(explicit)) \cup {Fresh(s)} :
            /\ session' = [session EXCEPT ![s] = id]
            /\ sandbox' = [sandbox EXCEPT ![id] = "alive"]
    /\ spc' = [spc EXCEPT ![s] = "running"]
    /\ UNCHANGED <<warm_sandbox_pool, pool_keys, warm_sandbox_lock, now, ticks,
                   wpc, wOwner, wExpired, wResp, tpc,
                   sWarm, using_warm, lastStatus, claimedSince, insertedBy>>
    /\ UNCHANGED runVars

\* the request ends (its run returned or raised, or its setup raised):
\* finally: await agent.cleanup(keep_sandbox=True)
SessionOver(s) ==
    /\ spc[s] \in {"resolved", "running"}
    /\ session' = [session EXCEPT ![s] = None]
    /\ sandbox' = cleanup(sandbox, session[s], TRUE)
    /\ spc' = [spc EXCEPT ![s] = "over"]
    /\ UNCHANGED <<warm_sandbox_pool, pool_keys, warm_sandbox_lock, now, ticks,
                   wpc, wOwner, wExpired, wResp, tpc,
                   sOwner, sExplicit, sWarm, using_warm, lastStatus,
                   claimedSince, sNamed, insertedBy>>
    /\ UNCHANGED runVars

PoolNext ==
    \/ Tick
    \/ \E w \in WReq : CleanupAcquire(w)
    \/ \E w \in WReq : EvictWarming(w)
    \/ \E w \in WReq : EvictKill(w)
    \/ \E w \in WReq : EvictDel(w)
    \/ \E w \in WReq : CleanupRelease(w)
    \/ \E w \in WReq : WarmInsert(w)
    \/ \E w \in WReq : TaskUpdate(w)
    \/ \E w \in WReq : TaskCleanup(w)
    \/ \E w \in WReq : TaskFail(w)
    \/ \E u \in Owners : warm_status(u)
    \/ \E s \in SReq : StreamClaim(s)

\* ======================================================== DynamiqAgent.run
NoResult == "<missing>"         \* tc has no "result" key, or it is None
NoContent == "<None>"           \* content = None
NoId == 0                       \* the message has no tool_call_id
Placeholder == "(no result)"
Sentinel == "Maximum iterations reached. Please try a simpler request."
UserMessage == "user_message"

Msg(role, content, tool_calls, tool_call_id) ==
    [role |-> role, content |-> content, tool_calls |-> tool_calls,
     tool_call_id |-> tool_call_id]

\* {"role": "tool", "tool_call_id": tc.get("id", ""),
\*  "content": tc.get("result", "") or "(no result)"}
ToolMessageOf(tc) ==
    Msg("tool",
        IF tc.result = NoResult \/ tc.result = "" THEN Placeholder ELSE tc.result,
        <<>>, tc.id)

RECURSIVE ToolMessagesSkipEmpty(_)
ToolMessagesSkipEmpty(tcs) ==
    IF tcs = <<>> THEN <<>>
    ELSE IF Head(tcs).result = NoResult \/ Head(tcs).result = ""
    THEN ToolMessagesSkipEmpty(Tail(tcs))
    ELSE <<ToolMessageOf(Head(tcs))>> \o ToolMessagesSkipEmpty(Tail(tcs))

RECURSIVE ToolMessages(_)
ToolMessages(tcs) ==
    IF tcs = <<>> THEN <<>>
    ELSE <<ToolMessageOf(Head(tcs))>> \o ToolMessages(Tail(tcs))

Ids(tcs) == [i \in 1 .. Len(tcs) |-> tcs[i].id]

\* One history message replayed: msg_dict, then one tool message per
\* declared invocation.  tool_calls = <<>> stands for a missing, None or
\* empty "tool_calls" (all falsy).
ReplayMessage(msg) ==
    IF msg.tool_calls # <<>> /\ msg.role = "assistant"
    THEN <<Msg(msg.role,
               IF msg.content = "" THEN NoContent ELSE msg.content,
               Ids(msg.tool_calls), NoId)>>
         \o ToolMessages(msg.tool_calls)
    ELSE <<Msg(msg.role, msg.content, <<>>, NoId)>>

RECURSIVE ReplayHistory(_)
ReplayHistory(h) ==
    IF h = <<>> THEN <<>>
    ELSE ReplayMessage(Head(h)) \o ReplayHistory(Tail(h))

\* messages = [system] + history replayed + [user_message]
BuildMessages(h, user_message) ==
    <<Msg("system", "SYSTEM_PROMPT", <<>>, NoId)>>
    \o ReplayHistory(h)
    \o <<Msg("user", user_message, <<>>, NoId)>>

\* ------------------------------------------------------------ inputs of run
HistIds == {901, 902}           \* invocation ids of earlier runs
HistCall == [id : HistIds, result : {NoResult, "", "r"}]
CallSeqs(n) == UNION {[1 .. k -> HistCall] : k \in 0 .. n}
HistMsgs ==
    [role : {"assistant"}, content : {"", "c"}, tool_calls : CallSeqs(MaxHistCalls)]
    \cup [role : {"user"}, content : {"", "c"},
          tool_calls : {<<>>, <<[id |-> 901, result |-> "r"]>>}]
Histories == UNION {[1 .. k -> HistMsgs] : k \in 0 .. MaxHistLen}

\* the history the runs of RunSpec start from
RunHistories ==
    {<<[role |-> "user", content |-> "c", tool_calls |-> <<>>],
       [role |-> "assistant", content |-> "",
        tool_calls |-> <<[id |-> 901, result |-> "r"],
                         [id |-> 902, result |-> NoResult]>>]>>}

E(type, v) == [type |-> type, v |-> v]
FinalResult(r) == E("_final_result", r)
Done == E("_done", "")
Raised == "<raised>"
NotReturned == "<running>"

\* =========================================================== DynamiqAgent.setup
\* The remote operations of setup, in the order of the code: those of the
\* reconnect (lines 772-810) and those of the creation (lines 822-851).
ReconnectOps == <<"re.connect", "re.read_env_session", "re.write_env_session",
                  "re.bashrc", "re.mkdir_uploads", "re._setup_cloud_credentials",
                  "re._upload_files">>
CreateOps == <<"new.create", "new.mkdir_uploads", "new._install_data_packages",
               "new._install_mcp_cli", "new._setup_cloud_credentials",
               "new._setup_github_cli", "new._upload_files">>
SetupOps == {ReconnectOps[i] : i \in DOMAIN ReconnectOps}
            \cup {CreateOps[i] : i \in DOMAIN CreateOps}
\* An operation goes well ("ok"), fails in a part that handles its own
\* failure ("absorbed": the bare except around the read of .env_session, the
\* try blocks inside _setup_cloud_credentials, _install_data_packages and
\* _upload_files), or raises out of its step ("raises").
Absorbing == {"re.read_env_session", "re._setup_cloud_credentials", "re._upload_files",
              "new._install_data_packages", "new._setup_cloud_credentials",
              "new._upload_files"}
Raising == SetupOps \ {"re.read_env_session"}
Failures(op) == (IF op \in Absorbing THEN {"absorbed"} ELSE {})
                \cup (IF op \in Raising THEN {"raises"} ELSE {})
Environments ==
    UNION {{[op \in SetupOps |-> IF op \in S THEN f[op] ELSE "ok"] :
                f \in {g \in [S -> {"absorbed", "raises"}] :
                          \A op \in S : g[op] \in Failures(op)}} :
           S \in {T \in SUBSET SetupOps : Cardinality(T) <= MaxFaults}}

\* __init__: self.existing_sandbox_id, self.sandbox = None,
\* self.sandbox_reused = False
NewAgent(existing) ==
    [existing_sandbox_id |-> existing, sandbox |-> None, sandbox_reused |-> FALSE]
\* the sandbox Sandbox.create returns
Created == Fresh(1)
NotCalled == [raised |-> FALSE, value |-> None, log |-> <<>>]

RECURSIVE Attempted(_, _)
\* the operations of ops that are started: up to the first that raises
Attempted(ops, env) ==
    IF ops = <<>> THEN <<>>
    ELSE IF env[Head(ops)] = "raises" THEN <<Head(ops)>>
    ELSE <<Head(ops)>> \o Attempted(Tail(ops), env)
\* no operation of ops raises
CompletesFirst(ops, env) == env[ops[1]] # "raises"
Completes(ops, env) == \A i \in DOMAIN ops : env[ops[i]] # "raises"

\* setup of agent in the environment env: the agent after it, what it
\* returned or that it raised, and the operations it started.
setup(agent, env) ==
    LET existing == agent.existing_sandbox_id
        re == existing # None
        connected == re /\ env["re.connect"] # "raises"
        created == env["new.create"] # "raises"
    IN
    IF re /\ Completes(ReconnectOps, env)
    THEN [agent |-> [agent EXCEPT !.sandbox = existing, !.sandbox_reused = TRUE],
          ret |-> [raised |-> FALSE, value |-> existing,
                   log |-> Attempted(ReconnectOps, env)]]
    ELSE [agent |-> [agent EXCEPT !.sandbox =
                        IF created THEN Created
                        ELSE IF connected THEN existing ELSE None],
          ret |-> [raised |-> ~Completes(CreateOps, env),
                   value |-> IF Completes(CreateOps, env) THEN Created ELSE None,
                   log |-> (IF re THEN Attempted(ReconnectOps, env) ELSE <<>>)
                           \o Attempted(CreateOps, env)]]

SetupIdle ==
    /\ selfAgent = NewAgent(None)
    /\ remote = [op \in SetupOps |-> "ok"]
    /\ setupRet = NotCalled

\* ================================================ the result of a tool call
\* A text is the sequence of its characters; the characters of a tool
\* result are told apart by their place.
Text(n) == [i \in 1 .. n |-> i]
ResultLimit == 8000
EventLimit == 1000
\* "\n\n... (output truncated)"
TruncationMarker == [i \in 1 .. 24 |-> 0 - i]
\* "..."
Ellipsis == <<0 - 100, 0 - 100, 0 - 100>>
NotYet == <<0>>

Lengths ==
    {0} \cup (EventLimit - MaxOver .. EventLimit + MaxOver)
        \cup (ResultLimit - MaxOver .. ResultLimit + MaxOver)

\* text[:n]
Slice(text, n) == SubSeq(text, 1, IF n < Len(text) THEN n ELSE Len(text))

\* if len(result) > 8000: result = result[:8000] + "\n\n... (output truncated)"
TruncateFrom(res) ==
    IF Len(res) >= ResultLimit THEN Slice(res, ResultLimit) \o TruncationMarker
    ELSE res
Truncate(res) ==
    IF Len(res) > ResultLimit THEN Slice(res, ResultLimit) \o TruncationMarker
    ELSE res
\* result[:1000] + ("..." if len(result) > 1000 else "")
EventResult(res) ==
    Slice(res, EventLimit) \o (IF Len(res) > EventLimit THEN Ellipsis ELSE <<>>)

TruncateIdle ==
    /\ toolResult = <<>>
    /\ appended = NotYet
    /\ shown = NotYet

FnIdle == SetupIdle /\ TruncateIdle

RunQuiet ==
    /\ messages_history = <<>>
    /\ messages = <<>>
    /\ rpc = "new"
    /\ iteration = 0
    /\ batch = <<>>
    /\ tcIdx = 0
    /\ nextId = 1
    /\ specials = 0
    /\ result = NotReturned
    /\ gpc = "new"
    /\ callbacks = <<>>
    /\ event_queue = <<>>
    /\ out = <<>>
    /\ sandbox_id = None
    /\ setups = 0
    /\ emitted = <<>>
    /\ calls = 0
    /\ toolExecs = 0
    /\ llmFailedAt = <<>>

RunIdle == RunQuiet /\ FnIdle

PoolIdle == PoolInit

Init == PoolInit /\ RunIdle

PoolSpec == Init /\ [][PoolNext]_vars

\* The pool under fair scheduling.  GET /warm/status is left out: it takes no
\* lock and changes nothing of the pool.
PoolLiveNext ==
    \/ Tick
    \/ \E w \in WReq : CleanupAcquire(w)
    \/ \E w \in WReq : EvictWarming(w)
    \/ \E w \in WReq : EvictKill(w)
    \/ \E w \in WReq : EvictDel(w)
    \/ \E w \in WReq : CleanupRelease(w)
    \/ \E w \in WReq : WarmInsert(w)
    \/ \E w \in WReq : TaskUpdate(w)
    \/ \E w \in WReq : TaskCleanup(w)
    \/ \E w \in WReq : TaskFail(w)
    \/ \E s \in SReq : StreamClaim(s)

\* A coroutine that holds the lock is resumed when what it awaits (the kill
\* of a sandbox) is over, and goes on to the release: the event loop runs
\* every ready coroutine.
HolderFairness ==
    \A w \in WReq :
        /\ WF_vars(EvictWarming(w) \/ EvictKill(w) \/ EvictDel(w)
                   \/ CleanupRelease(w))
        /\ WF_vars(TaskCleanup(w))

\* agent.setup() of a provisioning task returns or raises, and the task then
\* gets the lock: asyncio.Lock wakes its waiters first come, first served, so
\* a task that waits is served once the lock stays free of other takers.
TaskFairness == \A w \in WReq : WF_vars(TaskUpdate(w) \/ TaskFail(w))

PoolLiveSpec == Init /\ [][PoolLiveNext]_vars /\ HolderFairness /\ TaskFairness

\* The pool and the sessions of the run requests while no entry expires.
SessionNext ==
    \/ \E w \in WReq : CleanupAcquire(w)
    \/ \E w \in WReq : CleanupRelease(w)
    \/ \E w \in WReq : WarmInsert(w)
    \/ \E w \in WReq : TaskUpdate(w)
    \/ \E w \in WReq : TaskFail(w)
    \/ \E u \in Owners : warm_status(u)
    \/ \E s \in SReq : StreamClaim(s)
    \/ \E s \in SReq : StreamSetup(s)
    \/ \E s \in SReq : RunSetup(s)
    \/ \E s \in SReq : SessionOver(s)

SessionSpec == Init /\ [][SessionNext]_vars

\* ------------------------------------------ the reconstruction step alone
RebuildInit ==
    /\ PoolIdle
    /\ messages_history \in Histories
    /\ messages = <<>>
    /\ rpc = "new"
    /\ iteration = 0
    /\ batch = <<>>
    /\ tcIdx = 0
    /\ nextId = 1
    /\ specials = 0
    /\ result = NotReturned
    /\ gpc = "new"
    /\ callbacks = <<>>
    /\ event_queue = <<>>
    /\ out = <<>>
    /\ sandbox_id = None
    /\ setups = 0
    /\ emitted = <<>>
    /\ calls = 0
    /\ toolExecs = 0
    /\ llmFailedAt = <<>>
    /\ FnIdle

\* lines 1277-1320 of run: the message list is built
Rebuild ==
    /\ rpc = "new"
    /\ messages' = BuildMessages(messages_history, UserMessage)
    /\ rpc' = "built"
    /\ UNCHANGED fnVars
    /\ UNCHANGED <<messages_history, iteration, batch, tcIdx, nextId, specials,
                   result, gpc, callbacks, event_queue, out, emitted, calls,
                   toolExecs, llmFailedAt>>
    /\ UNCHANGED gwVars
    /\ UNCHANGED poolVars

RebuildNext == Rebuild

RebuildSpec == RebuildInit /\ [][RebuildNext]_vars

\* ------------------------------------------------------------- setup alone
SetupInit ==
    /\ PoolIdle
    /\ RunQuiet
    /\ TruncateIdle
    /\ \E existing \in {None, Earlier} : selfAgent = NewAgent(existing)
    /\ remote \in Environments
    /\ setupRet = NotCalled

\* await agent.setup()
Setup ==
    /\ setupRet = NotCalled
    /\ selfAgent' = setup(selfAgent, remote).agent
    /\ setupRet' = setup(selfAgent, remote).ret
    /\ UNCHANGED <<remote, toolResult, appended, shown>>
    /\ UNCHANGED <<messages_history, messages, rpc, iteration, batch, tcIdx, nextId,
                   specials, result, gpc, callbacks, event_queue, out,
                   emitted, calls, toolExecs, llmFailedAt>>
    /\ UNCHANGED gwVars
    /\ UNCHANGED poolVars

SetupNext == Setup

SetupSpec == SetupInit /\ [][SetupNext]_vars

\* ------------------------------------------- the cut of a tool result alone
TruncateInit ==
    /\ PoolIdle
    /\ RunQuiet
    /\ SetupIdle
    /\ \E n \in Lengths : toolResult = Text(n)
    /\ appended = NotYet
    /\ shown = NotYet

\* lines 1387-1402 of run: the cut, emit("tool_result"), messages.append
HandleResult ==
    /\ appended = NotYet
    /\ LET res == Truncate(toolResult) IN
        /\ shown' = EventResult(res)
        /\ appended' = res
    /\ UNCHANGED <<selfAgent, remote, setupRet, toolResult>>
    /\ UNCHANGED <<messages_history, messages, rpc, iteration, batch, tcIdx, nextId,
                   specials, result, gpc, callbacks, event_queue, out,
                   emitted, calls, toolExecs, llmFailedAt>>
    /\ UNCHANGED gwVars
    /\ UNCHANGED poolVars

TruncateNext == HandleResult

TruncateSpec == TruncateInit /\ [][TruncateNext]_vars

\* ================================================= run_agent_stream + run
\* What the Completion can answer: a failure, a message without tool
\* invocations (content a text or None), or a batch of tool invocations.
\* An invocation is named by its id; its kind says what its arguments and
\* its executor do:
\*   "ok"      arguments decode to an object, the executor returns a text
\*   "error"   the executor fails and returns the text of the failure (no
\*             sandbox, the sandbox call raises, exit code not 0, unknown
\*             tool name)
\*   "file"    return_file returns a file artifact
\*   "badjson" arguments are not decodable JSON (args = {}), a text is returned
\*   "nonobj"  arguments decode to a list: args.get raises in _execute_tool
ToolKinds == {"ok", "error", "file", "badjson", "nonobj"}
Cost(b) == (IF Len(b) > 1 THEN 1 ELSE 0)
           + Cardinality({i \in 1 .. Len(b) : b[i] # "ok"})
KindSeqs == UNION {[1 .. k -> ToolKinds] : k \in 1 .. MaxBatch}
Batches(id0, budget) ==
    {[i \in 1 .. Len(ks) |-> [id |-> id0 + i - 1, kind |-> ks[i]]] :
        ks \in {b \in KindSeqs : Cost(b) <= budget}}
Contents == {"final", NoContent}

LLMError == "LLM error"
LLMErrorText == "Error calling LLM"
ToolException == "exception of the tool"
TimeoutText == "Agent timeout"
SetupException == "exception of setup"

\* asyncio: a callback passed to call_soon_threadsafe runs in a later pass
\* of the event loop.  When the task suspends (await asyncio.to_thread) the
\* callbacks scheduled so far run, in order, before the task is resumed:
\* Suspend(evs) is the queue after the events evs emitted in this step.
Suspend(evs) == event_queue \o callbacks \o evs

\* The run task goes on only while the relay loop keeps up with it.
RunMayGo == gpc # "relay" \/ Len(event_queue) <= MaxQueue

\* args of an invocation: json.loads of the arguments, {} when it raises
\* JSONDecodeError
EmptyArgs == "{}"
ObjectArgs == "{...}"
ListArgs == "[...]"
DecodeRaw(kind) ==
    IF kind = "badjson" THEN "raw"
    ELSE IF kind = "nonobj" THEN ListArgs
    ELSE ObjectArgs
Decode(kind) ==
    IF kind = "badjson" THEN EmptyArgs
    ELSE IF kind = "nonobj" THEN ListArgs
    ELSE ObjectArgs

\* _execute_tool(name, args) raises when args has no get (not an object)
Raises(args) == args \notin {EmptyArgs, ObjectArgs}

\* emit("tool_call") of the invocation tc and the start of its execution
StartTool(tc) == <<E("tool_call", tc.id)>>

ReturnAfterCallbacks(r, evs) ==
    /\ result' = r
    /\ rpc' = "finished"
    /\ callbacks' = <<>>
    /\ event_queue' = event_queue \o callbacks \o evs \o <<FinalResult(r), Done>>
    /\ emitted' = emitted \o evs

\* run returns r: run_agent_task puts ("_final_result", r) and ("_done",
\* None) straight into the queue (await event_queue.put does not suspend on
\* an unbounded queue); the callbacks of the events emitted since the last
\* suspension (evs) have not run yet.
Return(r, evs) ==
    /\ result' = r
    /\ rpc' = "finished"
    /\ callbacks' = callbacks \o evs
    /\ event_queue' = event_queue \o <<FinalResult(r), Done>>
    /\ emitted' = emitted \o evs

\* run raises: except Exception puts ("error", str(e)), then ("_done", None)
Raise(evs) ==
    /\ result' = Raised
    /\ rpc' = "finished"
    /\ callbacks' = callbacks \o evs
    /\ event_queue' = event_queue \o <<E("error", ToolException), Done>>
    /\ emitted' = emitted \o evs

\* the events evs are emitted and the task suspends in the next remote call
Await(pc, evs) ==
    /\ rpc' = pc
    /\ callbacks' = <<>>
    /\ event_queue' = Suspend(evs)
    /\ emitted' = emitted \o evs
    /\ UNCHANGED fnVars
    /\ UNCHANGED result

\* emit("thinking", {"iteration": iteration + 1}) at the head of the loop
\* body; i is iteration + 1
ThinkingFromZero(i) == E("thinking", i - 1)
Thinking(i) == E("thinking", i)

\* First step of the task: the message list is built, thinking 1 is
\* emitted and the first Completion call is made.
RunStart ==
    /\ rpc = "created"
    /\ messages' = BuildMessages(messages_history, UserMessage)
    /\ iteration' = 1
    /\ calls' = calls + 1
    /\ Await("llm", <<Thinking(1)>>)
    /\ UNCHANGED fnVars
    /\ UNCHANGED <<messages_history, batch, tcIdx, nextId, specials, gpc, out,
                   toolExecs, llmFailedAt>>
    /\ UNCHANGED gwVars
    /\ UNCHANGED poolVars

\* The Completion call raises: emit("error"), return the error text.
LLMFailRetry ==
    /\ rpc = "llm"
    /\ RunMayGo
    /\ llmFailedAt' = <<calls, toolExecs>>
    /\ IF iteration < MAX_ITERATIONS
       THEN /\ iteration' = iteration + 1
            /\ calls' = calls + 1
            /\ Await("llm", <<E("error", LLMError), E("thinking", iteration + 1)>>)
       ELSE /\ Return(LLMErrorText, <<E("error", LLMError)>>)
            /\ UNCHANGED <<iteration, calls>>
    /\ UNCHANGED fnVars
    /\ UNCHANGED <<messages_history, messages, batch, tcIdx, nextId,
                   specials, gpc, out, toolExecs>>
    /\ UNCHANGED gwVars
    /\ UNCHANGED poolVars

LLMFail ==
    /\ rpc = "llm"
    /\ RunMayGo
    /\ llmFailedAt' = <<calls, toolExecs>>
    /\ Return(LLMErrorText, <<E("error", LLMError)>>)
    /\ UNCHANGED fnVars
    /\ UNCHANGED <<messages_history, messages, iteration, batch, tcIdx, nextId,
                   specials, gpc, out, calls, toolExecs>>
    /\ UNCHANGED gwVars
    /\ UNCHANGED poolVars

\* The response has no tool_calls: emit("message"), return the content.
LLMContentTwice ==
    /\ rpc = "llm"
    /\ RunMayGo
    /\ \E c \in Contents :
        LET final_response == IF c = NoContent THEN "" ELSE c IN
        Return(final_response, <<E("message", final_response), E("message", final_response)>>)
    /\ UNCHANGED fnVars
    /\ UNCHANGED <<messages_history, messages, iteration, batch, tcIdx, nextId,
                   specials, gpc, out, calls, toolExecs, llmFailedAt>>
    /\ UNCHANGED gwVars
    /\ UNCHANGED poolVars

LLMContent ==
    /\ rpc = "llm"
    /\ RunMayGo
    /\ \E c \in Contents :
        LET final_response == IF c = NoContent THEN "" ELSE c IN
        Return(final_response, <<E("message", final_response)>>)
    /\ UNCHANGED fnVars
    /\ UNCHANGED <<messages_history, messages, iteration, batch, tcIdx, nextId,
                   specials, gpc, out, calls, toolExecs, llmFailedAt>>
    /\ UNCHANGED gwVars
    /\ UNCHANGED poolVars

\* The response requests tool invocations: messages.append(msg), then the
\* first invocation: emit("tool_call"), await asyncio.to_thread(_execute_tool).
LLMTools ==
    /\ rpc = "llm"
    /\ RunMayGo
    /\ \E b \in Batches(nextId, MaxSpecial - specials) :
        /\ batch' = b
        /\ specials' = specials + Cost([i \in 1 .. Len(b) |-> b[i].kind])
        /\ nextId' = nextId + Len(b)
        /\ messages' = Append(messages, Msg("assistant", NoContent, Ids(b), NoId))
        /\ Await("tool", StartTool(b[1]))
    /\ tcIdx' = 1
    /\ toolExecs' = toolExecs + 1
    /\ UNCHANGED fnVars
    /\ UNCHANGED <<messages_history, iteration, gpc, out, calls, llmFailedAt>>
    /\ UNCHANGED gwVars
    /\ UNCHANGED poolVars

\* _execute_tool raises (the arguments are not an object): the exception
\* leaves run.
ToolRaise ==
    /\ rpc = "tool"
    /\ RunMayGo
    /\ Raises(Decode(batch[tcIdx].kind))
    /\ Raise(<<>>)
    /\ UNCHANGED fnVars
    /\ UNCHANGED <<messages_history, messages, iteration, batch, tcIdx, nextId,
                   specials, gpc, out, calls, toolExecs, llmFailedAt>>
    /\ UNCHANGED gwVars
    /\ UNCHANGED poolVars

\* result as it stands after lines 1370-1389: the text the executor
\* returned, or the notice that stands for a file artifact
ToolText(kind) ==
    IF kind = "error" THEN "Error: ..."
    ELSE IF kind = "file" THEN "File has been sent to the user for download."
    ELSE "result"

\* messages.append({"role": "tool", "tool_call_id": tc.id, "content": result})
AppendToolResultUnlessFile(msgs, tc) ==
    IF tc.kind = "file" THEN msgs
    ELSE Append(msgs, Msg("tool", ToolText(tc.kind), <<>>, tc.id))
AppendToolResult(msgs, tc) ==
    Append(msgs, Msg("tool", ToolText(tc.kind), <<>>, tc.id))

\* what is emitted once the execution of tc has returned: emit("file") for
\* a file artifact, then emit("tool_result")
ResultEventsFileOnly(tc) ==
    IF tc.kind = "file" THEN <<E("file", tc.id)>> ELSE <<E("tool_result", tc.id)>>
ResultEvents(tc) ==
    (IF tc.kind = "file" THEN <<E("file", tc.id)>> ELSE <<>>)
    \o <<E("tool_result", tc.id)>>

\* _execute_tool returns: [emit("file")], emit("tool_result"), the tool
\* message is appended; then the next invocation of the batch, or the next
\* iteration (emit("thinking"), Completion call), or the end of the loop.
ToolReturn ==
    /\ rpc = "tool"
    /\ RunMayGo
    /\ ~Raises(Decode(batch[tcIdx].kind))
    /\ LET tc == batch[tcIdx]
           evs == ResultEvents(tc)
       IN
        /\ messages' = AppendToolResult(messages, tc)
        /\ IF tcIdx < Len(batch)
           THEN /\ tcIdx' = tcIdx + 1
                /\ toolExecs' = toolExecs + 1
                /\ Await("tool", evs \o StartTool(batch[tcIdx + 1]))
                /\ UNCHANGED <<iteration, calls>>
           ELSE IF iteration < MAX_ITERATIONS
           THEN /\ iteration' = iteration + 1
                /\ calls' = calls + 1
                /\ Await("llm", evs \o <<Thinking(iteration + 1)>>)
                /\ UNCHANGED <<tcIdx, toolExecs>>
           ELSE /\ Return(Sentinel, evs)
                /\ UNCHANGED <<iteration, calls, tcIdx, toolExecs>>
    /\ UNCHANGED fnVars
    /\ UNCHANGED <<messages_history, batch, nextId, specials, gpc, out, llmFailedAt>>
    /\ UNCHANGED gwVars
    /\ UNCHANGED poolVars

\* The event loop runs the callbacks left when the task ended.
RunCallbacks ==
    /\ rpc = "finished"
    /\ callbacks # <<>>
    /\ event_queue' = event_queue \o callbacks
    /\ callbacks' = <<>>
    /\ UNCHANGED fnVars
    /\ UNCHANGED <<messages_history, messages, rpc, iteration, batch, tcIdx,
                   nextId, specials, result, gpc, out, emitted, calls,
                   toolExecs, llmFailedAt>>
    /\ UNCHANGED gwVars
    /\ UNCHANGED poolVars

\* ------------------------------------------- generate_events after the claim
\* How the handle of the request is resolved (lines 358-385):
\*   "warm"        using_warm, no files
\*   "warm_files"  using_warm, files are uploaded first
\*   "explicit"    req.sandbox_id is set: agent.setup() reconnects
\*   "fresh"       neither: "Preparing..." and agent.setup()
Modes == {"warm", "warm_files", "explicit", "fresh"}
StatusBefore(mode) ==
    IF mode = "warm_files" THEN <<E("status", <<"Uploading files...">>)>>
    ELSE IF mode = "fresh" THEN <<E("status", <<"Preparing...">>)>>
    ELSE <<>>
\* what can raise: _upload_files or setup; nothing does for a warm agent
\* without files
MayRaise(mode) == mode # "warm"

\* RunSpec follows the run request Req.
Req == 1

\* POST /run/stream arrives: generate_events up to the claim
GenClaim ==
    /\ gpc = "new"
    /\ StreamClaim(Req)

\* the branch of lines 360-385 the request takes
Takes(mode) ==
    IF using_warm[Req] THEN mode \in {"warm", "warm_files"}
    ELSE IF sExplicit[Req] THEN mode = "explicit"
    ELSE mode = "fresh"

\* what agent.setup() can return: the sandbox named by the request when the
\* reconnect works, or else a new sandbox
SetupReturns(explicit) ==
    {Fresh(Req)} \cup (IF explicit /\ sandbox[Earlier] = "alive" THEN {Earlier} ELSE {})
\* the sandbox the request runs on
Resolves(mode) ==
    IF mode \in {"warm", "warm_files"} THEN {sWarm[Req].sandbox_id}
    ELSE SetupReturns(mode = "explicit")
SetupCalls(mode) == IF mode \in {"warm", "warm_files"} THEN 0 ELSE 1

\* the payload of the Ready status: message, sandbox_id, reused and, for a
\* warm sandbox only, warm
ReadyStatusNotWarm(mode, id) == <<"Ready", id, mode # "fresh" /\ id # Fresh(Req)>>
ReadyStatus(mode, id) ==
    IF mode \in {"warm", "warm_files"} THEN <<"Ready", id, TRUE, TRUE>>
    ELSE <<"Ready", id, mode = "explicit" /\ Earlier = id>>

\* The handle is resolved (the files are uploaded to the warm sandbox, or
\* setup returns), the Ready status is sent and the run task is created:
\* task = asyncio.create_task(run_agent_task()).
GenSetup ==
    /\ gpc = "new"
    /\ spc[Req] = "resolved"
    /\ \E mode \in Modes :
        /\ Takes(mode)
        /\ setups' = setups + SetupCalls(mode)
        /\ \E id \in Resolves(mode) :
            /\ sandbox_id' = id
            /\ sandbox' = [sandbox EXCEPT ![id] = "alive"]
            /\ out' = StatusBefore(mode) \o <<E("status", ReadyStatus(mode, id))>>
    /\ gpc' = "relay"
    /\ rpc' = "created"
    /\ UNCHANGED fnVars
    /\ UNCHANGED <<messages_history, messages, iteration, batch, tcIdx, nextId,
                   specials, result, callbacks, event_queue, emitted, calls,
                   toolExecs, llmFailedAt>>
    /\ UNCHANGED <<warm_sandbox_pool, pool_keys, warm_sandbox_lock, now, ticks,
                   wpc, wOwner, wExpired, wResp, tpc,
                   spc, sOwner, sExplicit, sWarm, using_warm, lastStatus,
                   claimedSince, sNamed, session, insertedBy>>

\* _upload_files or setup raises (setup before or after it created its
\* sandbox): except Exception sends error and done; finally:
\* agent.cleanup(keep_sandbox=True).
GenSetupFail ==
    /\ gpc = "new"
    /\ spc[Req] = "resolved"
    /\ \E mode \in Modes :
        /\ Takes(mode)
        /\ MayRaise(mode)
        /\ setups' = setups + SetupCalls(mode)
        /\ out' = StatusBefore(mode)
                  \o <<E("error", SetupException), E("done", "")>>
        /\ sandbox_id' = IF mode = "warm_files" THEN sWarm[Req].sandbox_id ELSE None
        /\ \E created \in BOOLEAN :
            LET mine == IF mode = "warm_files" THEN sWarm[Req].sandbox_id
                        ELSE IF created THEN Fresh(Req) ELSE None
            IN sandbox' = cleanup(IF mine = None THEN sandbox
                                  ELSE [sandbox EXCEPT ![mine] = "alive"],
                                  mine, TRUE)
    /\ gpc' = "closed"
    /\ UNCHANGED fnVars
    /\ UNCHANGED <<messages_history, messages, rpc, iteration, batch, tcIdx,
                   nextId, specials, result, callbacks, event_queue, emitted,
                   calls, toolExecs, llmFailedAt>>
    /\ UNCHANGED <<warm_sandbox_pool, pool_keys, warm_sandbox_lock, now, ticks,
                   wpc, wOwner, wExpired, wResp, tpc,
                   spc, sOwner, sExplicit, sWarm, using_warm, lastStatus,
                   claimedSince, sNamed, session, insertedBy>>

\* await asyncio.wait_for(event_queue.get(), timeout=300) returns an item:
\* "_done" ends the loop, "_final_result" is sent as a message event, any
\* other item is sent as it is.
GenGet ==
    /\ gpc = "relay"
    /\ event_queue # <<>>
    /\ LET item == Head(event_queue) IN
        /\ event_queue' = Tail(event_queue)
        /\ IF item.type = "_done"
           THEN gpc' = "await_task" /\ UNCHANGED out
           ELSE IF item.type = "_final_result"
           THEN out' = Append(out, E("message", item.v)) /\ UNCHANGED gpc
           ELSE out' = Append(out, item) /\ UNCHANGED gpc
    /\ UNCHANGED fnVars
    /\ UNCHANGED <<messages_history, messages, rpc, iteration, batch, tcIdx,
                   nextId, specials, result, callbacks, emitted, calls,
                   toolExecs, llmFailedAt>>
    /\ UNCHANGED gwVars
    /\ UNCHANGED poolVars

\* asyncio.TimeoutError: nothing arrived for 300 seconds while the task was
\* suspended in a remote call (of one of the first MaxStall iterations); the
\* error is sent and the loop is left.
GenTimeoutDone ==
    /\ gpc = "relay"
    /\ event_queue = <<>>
    /\ rpc \in {"llm", "tool"}
    /\ iteration <= MaxStall
    /\ out' = out \o <<E("error", TimeoutText), E("done", "")>>
    /\ gpc' = "await_task"
    /\ UNCHANGED fnVars
    /\ UNCHANGED <<messages_history, messages, rpc, iteration, batch, tcIdx,
                   nextId, specials, result, callbacks, event_queue, emitted,
                   calls, toolExecs, llmFailedAt>>
    /\ UNCHANGED gwVars
    /\ UNCHANGED poolVars

GenTimeout ==
    /\ gpc = "relay"
    /\ event_queue = <<>>
    /\ rpc \in {"llm", "tool"}
    /\ iteration <= MaxStall
    /\ out' = Append(out, E("error", TimeoutText))
    /\ gpc' = "await_task"
    /\ UNCHANGED fnVars
    /\ UNCHANGED <<messages_history, messages, rpc, iteration, batch, tcIdx,
                   nextId, specials, result, callbacks, event_queue, emitted,
                   calls, toolExecs, llmFailedAt>>
    /\ UNCHANGED gwVars
    /\ UNCHANGED poolVars

GenDoneEarly ==
    /\ gpc = "await_task"
    /\ out' = Append(out, E("done", ""))
    /\ sandbox' = cleanup(sandbox, sandbox_id, TRUE)
    /\ gpc' = "closed"
    /\ UNCHANGED fnVars
    /\ UNCHANGED <<messages_history, messages, rpc, iteration, batch, tcIdx,
                   nextId, specials, result, callbacks, event_queue, emitted,
                   calls, toolExecs, llmFailedAt>>
    /\ UNCHANGED gwVars
    /\ UNCHANGED <<warm_sandbox_pool, pool_keys, warm_sandbox_lock, now, ticks,
                   wpc, wOwner, wExpired, wResp, tpc,
                   spc, sOwner, sExplicit, sWarm, using_warm, lastStatus,
                   claimedSince, sNamed, session, insertedBy>>

\* await task returns once the task has ended; done is sent; finally:
\* agent.cleanup(keep_sandbox=True).
GenDone ==
    /\ gpc = "await_task"
    /\ rpc = "finished"
    /\ out' = Append(out, E("done", ""))
    /\ sandbox' = cleanup(sandbox, sandbox_id, TRUE)
    /\ gpc' = "closed"
    /\ UNCHANGED fnVars
    /\ UNCHANGED <<messages_history, messages, rpc, iteration, batch, tcIdx,
                   nextId, specials, result, callbacks, event_queue, emitted,
                   calls, toolExecs, llmFailedAt>>
    /\ UNCHANGED gwVars
    /\ UNCHANGED <<warm_sandbox_pool, pool_keys, warm_sandbox_lock, now, ticks,
                   wpc, wOwner, wExpired, wResp, tpc,
                   spc, sOwner, sExplicit, sWarm, using_warm, lastStatus,
                   claimedSince, sNamed, session, insertedBy>>

\* ------------------------------------------------------------------ POST /run
\* run_agent: the request never looks at the pool.  agent =
\* DynamiqAgent(sandbox_id=req.sandbox_id); sandbox_id = await agent.setup()
\* returns and agent.run(req.message) is awaited.
RunAgentSetupClaims ==
    /\ gpc = "new"
    /\ spc[Req] = "idle"
    /\ \E uid \in Owners :
        /\ sOwner' = [sOwner EXCEPT ![Req] = uid]
        /\ warm_sandbox_pool' = ClaimPop(uid)
        /\ pool_keys' = Remove(pool_keys, uid)
    /\ sandbox_id' = Fresh(Req)
    /\ sandbox' = [sandbox EXCEPT ![Fresh(Req)] = "alive"]
    /\ setups' = setups + 1
    /\ gpc' = "run"
    /\ UNCHANGED fnVars
    /\ UNCHANGED <<messages_history, messages, rpc, iteration, batch, tcIdx,
                   nextId, specials, result, callbacks, event_queue, out,
                   emitted, calls, toolExecs, llmFailedAt>>
    /\ UNCHANGED <<warm_sandbox_lock, now, ticks,
                   wpc, wOwner, wExpired, wResp, tpc,
                   spc, sExplicit, sWarm, using_warm, lastStatus,
                   claimedSince, sNamed, session, insertedBy>>

RunAgentSetup ==
    /\ gpc = "new"
    /\ spc[Req] = "idle"
    /\ \E uid \in Owners : sOwner' = [sOwner EXCEPT ![Req] = uid]
    /\ \E explicit \in BOOLEAN :
        \E id \in SetupReturns(explicit) :
            /\ sandbox_id' = id
            /\ sandbox' = [sandbox EXCEPT ![id] = "alive"]
    /\ setups' = setups + 1
    /\ gpc' = "run"
    /\ UNCHANGED fnVars
    /\ UNCHANGED <<messages_history, messages, rpc, iteration, batch, tcIdx,
                   nextId, specials, result, callbacks, event_queue, out,
                   emitted, calls, toolExecs, llmFailedAt>>
    /\ UNCHANGED <<warm_sandbox_pool, pool_keys, warm_sandbox_lock, now, ticks,
                   wpc, wOwner, wExpired, wResp, tpc,
                   spc, sExplicit, sWarm, using_warm, lastStatus,
                   claimedSince, sNamed, session, insertedBy>>

\* agent.setup() raises: finally: agent.cleanup(keep_sandbox=True), and the
\* exception leaves the handler.
RunAgentSetupFail ==
    /\ gpc = "new"
    /\ spc[Req] = "idle"
    /\ \E uid \in Owners : sOwner' = [sOwner EXCEPT ![Req] = uid]
    /\ \E created \in BOOLEAN :
        LET mine == IF created THEN Fresh(Req) ELSE None
        IN sandbox' = cleanup(IF mine = None THEN sandbox
                              ELSE [sandbox EXCEPT ![mine] = "alive"],
                              mine, TRUE)
    /\ setups' = setups + 1
    /\ gpc' = "raised"
    /\ UNCHANGED fnVars
    /\ UNCHANGED <<messages_history, messages, rpc, iteration, batch, tcIdx,
                   nextId, specials, result, callbacks, event_queue, out,
                   emitted, calls, toolExecs, llmFailedAt, sandbox_id>>
    /\ UNCHANGED <<warm_sandbox_pool, pool_keys, warm_sandbox_lock, now, ticks,
                   wpc, wOwner, wExpired, wResp, tpc,
                   spc, sExplicit, sWarm, using_warm, lastStatus,
                   claimedSince, sNamed, session, insertedBy>>

\* agent.run(req.message) is over: it returned (the response is sent) or it
\* raised; finally: agent.cleanup(keep_sandbox=True).  The loop is the one
\* of the streamed run, without a listener; here only its end counts.
RunAgentFinish ==
    /\ gpc = "run"
    /\ \E end \in {"returned", "raised"} : gpc' = end
    /\ sandbox' = cleanup(sandbox, sandbox_id, TRUE)
    /\ UNCHANGED fnVars
    /\ UNCHANGED <<messages_history, messages, rpc, iteration, batch, tcIdx,
                   nextId, specials, result, callbacks, event_queue, out,
                   emitted, calls, toolExecs, llmFailedAt>>
    /\ UNCHANGED gwVars
    /\ UNCHANGED <<warm_sandbox_pool, pool_keys, warm_sandbox_lock, now, ticks,
                   wpc, wOwner, wExpired, wResp, tpc,
                   spc, sOwner, sExplicit, sWarm, using_warm, lastStatus,
                   claimedSince, sNamed, session, insertedBy>>

\* The pool a run request meets: POST /warm of u1 has returned, its task has
\* marked the entry ready with sandbox 1; nothing is known of u2.  The
\* sandbox of an earlier run is alive.
RunPool ==
    /\ warm_sandbox_pool =
          [u \in Owners |->
              IF u = "u1" THEN MarkReady(WarmingEntry(0), 1, 1) ELSE Absent]
    /\ pool_keys = <<"u1">>
    /\ warm_sandbox_lock = Free
    /\ now = 0
    /\ ticks = 0
    /\ wpc = [w \in WReq |-> IF w = 1 THEN "done" ELSE "idle"]
    /\ wOwner = [w \in WReq |-> IF w = 1 THEN "u1" ELSE NoOwner]
    /\ wExpired = [w \in WReq |-> <<>>]
    /\ wResp = [w \in WReq |->
          IF w = 1 THEN [status |-> "warming", sandbox_id |-> None,
                         message |-> "Sandbox warming started"]
          ELSE [status |-> "-", sandbox_id |-> None, message |-> "-"]]
    /\ tpc = [w \in WReq |-> IF w = 1 THEN "done" ELSE "none"]
    /\ sandbox = [i \in Sandboxes |-> IF i \in {1, Earlier} THEN "alive" ELSE "none"]
    /\ spc = [s \in SReq |-> "idle"]
    /\ sOwner = [s \in SReq |-> NoOwner]
    /\ sExplicit = [s \in SReq |-> FALSE]
    /\ sWarm = [s \in SReq |-> [agent |-> None, sandbox_id |-> None]]
    /\ using_warm = [s \in SReq |-> FALSE]
    /\ lastStatus = [status |-> "-", sandbox_id |-> None]
    /\ claimedSince = [u \in Owners |-> FALSE]
    /\ sNamed = [s \in SReq |-> None]
    /\ session = [s \in SReq |-> None]
    /\ insertedBy = [u \in Owners |-> IF u = "u1" THEN 1 ELSE 0]

RunInit ==
    /\ RunPool
    /\ messages_history \in RunHistories
    /\ messages = <<>>
    /\ rpc = "new"
    /\ iteration = 0
    /\ batch = <<>>
    /\ tcIdx = 0
    /\ nextId = 1
    /\ specials = 0
    /\ result = NotReturned
    /\ gpc = "new"
    /\ callbacks = <<>>
    /\ event_queue = <<>>
    /\ out = <<>>
    /\ sandbox_id = None
    /\ setups = 0
    /\ emitted = <<>>
    /\ calls = 0
    /\ toolExecs = 0
    /\ llmFailedAt = <<>>
    /\ FnIdle

RunNext ==
    \/ GenClaim
    \/ RunAgentSetup
    \/ RunAgentSetupFail
    \/ RunAgentFinish
    \/ GenSetup
    \/ GenSetupFail
    \/ GenGet
    \/ GenTimeout
    \/ GenDone
    \/ RunStart
    \/ LLMFail
    \/ LLMContent
    \/ LLMTools
    \/ ToolRaise
    \/ ToolReturn
    \/ RunCallbacks

RunSpec == RunInit /\ [][RunNext]_vars


\* ===================================================================== claims
\* A POST /warm request w returns in this step.
WarmReturns(w) == wpc[w] = "insert_wait" /\ wpc'[w] = "done"
\* A POST /run/stream request s makes its claim in this step.
Claims(s) == spc[s] = "idle" /\ spc'[s] = "resolved"
Received(s) == sWarm[s].sandbox_id # None

\* C1: over all interleavings of claims, evictions and provisioning
\* completions, a warm handle is received by at most one run request, and a
\* claim for an owner made after a successful claim for that owner, with no
\* new entry inserted by /warm in between, receives nothing.
C1_ClaimOnce ==
    /\ [](\A s1, s2 \in SReq :
            (s1 # s2 /\ Received(s1)) =>
                /\ sWarm[s1].sandbox_id # sWarm[s2].sandbox_id
                /\ sWarm[s1].agent # sWarm[s2].agent)
    /\ [][\A s \in SReq :
            (Claims(s) /\ claimedSince[sOwner'[s]]) => ~Received(s)']_vars

C1_Witness ==
    \E s1, s2 \in SReq :
        /\ s1 < s2
        /\ sOwner[s1] = sOwner[s2]
        /\ Received(s1)
        /\ spc[s2] = "resolved" /\ ~Received(s2)
        /\ claimedSince[sOwner[s1]]

\* C2: what the pool reports as ready (GET /warm/status in any state, POST
\* /warm and the claim when they run) is never a handle that was claimed or
\* torn down by an eviction.
C2_NeverExposedAfterClaimOrEvict ==
    /\ [](\A u \in Owners :
            StatusOf(u).status = "ready" =>
                StatusOf(u).sandbox_id \notin (Claimed \cup TornDown))
    /\ [][\A w \in WReq :
            (WarmReturns(w) /\ wResp'[w].status = "ready") =>
                wResp'[w].sandbox_id \notin (Claimed \cup TornDown)]_vars
    /\ [][\A s \in SReq :
            (Claims(s) /\ Received(s)') =>
                sWarm'[s].sandbox_id \notin (Claimed \cup TornDown)]_vars

\* C3: a POST /warm that finds the owner's entry still warming starts no
\* provisioning task and leaves the pool as it is, so that two requests
\* racing for one owner start one task and leave one entry; a warming entry
\* always has a task provisioning for its owner.
C3_OneTaskOneEntry ==
    /\ [][\A w \in WReq :
            (WarmReturns(w) /\ Present(wOwner[w])
                /\ ~warm_sandbox_pool[wOwner[w]].ready) =>
                /\ tpc' = tpc
                /\ warm_sandbox_pool' = warm_sandbox_pool]_vars
    /\ [](\A u \in Owners :
            (Present(u) /\ ~warm_sandbox_pool[u].ready) =>
                \E w \in WReq : wOwner[w] = u /\ tpc[w] = "setup")

\* two requests in flight at once: w1 got to the pool first, w2 inserted the
\* entry while w1 was between its cleanup and its insert
C3_Witness ==
    \E w1, w2 \in WReq :
        /\ w1 < w2
        /\ wOwner[w1] = wOwner[w2]
        /\ wResp[w2].message = "Sandbox warming started"
        /\ wResp[w1].message = "Sandbox is being initialized"
        /\ tpc[w1] = "none"
        /\ tpc[w2] = "setup"

\* ------------------------------------------------------------ run and relay
Prefix == BuildMessages(messages_history, UserMessage)
\* the assistant messages the loop appended: one per tool-requesting response
LoopAssistants ==
    {i \in DOMAIN messages : i > Len(Prefix) /\ messages[i].role = "assistant"}
TimedOut == \E i \in DOMAIN out : out[i].type = "error" /\ out[i].v = TimeoutText
Closed == gpc = "closed"
EvEq(a, b) == a.type = b.type /\ a.v = b.v

RECURSIVE IsSubseq(_, _)
\* a is b with some elements left out
IsSubseq(a, b) ==
    IF a = <<>> THEN TRUE
    ELSE IF b = <<>> THEN FALSE
    ELSE IF EvEq(Head(a), Head(b)) THEN IsSubseq(Tail(a), Tail(b))
    ELSE IsSubseq(a, Tail(b))

Count(seq, e) == Cardinality({i \in DOMAIN seq : EvEq(seq[i], e)})

\* C4: run makes at most 15 Completion calls, and when all 15 responses
\* requested tool invocations it returns the sentinel text.
C4_BudgetAndSentinel ==
    /\ calls <= MAX_ITERATIONS
    /\ (rpc = "finished" /\ Cardinality(LoopAssistants) = MAX_ITERATIONS)
            => result = Sentinel

\* C5: when the stream of a run that met no idle timeout is closed, every
\* event run emitted is on the stream, in the order emitted, and none twice.
C5_RelayedInOrder ==
    (Closed /\ ~TimedOut) =>
        /\ IsSubseq(emitted, out)
        /\ \A i \in DOMAIN emitted : Count(out, emitted[i]) = 1

\* C6: the stream carries no done event until it is closed, and a closed
\* stream carries exactly one, as its last event, on every path.
C6_OneDoneLast ==
    LET dones == {i \in DOMAIN out : out[i].type = "done"} IN
    IF Closed THEN dones = {Len(out)} ELSE dones = {}

C6_Witness ==
    /\ Closed
    /\ TimedOut
    /\ result = Raised

\* C7: a closed stream of a request that met a fatal path (setup failure,
\* Completion failure, exception of the run task, idle timeout) carries an
\* error event before its final done.
Fatal ==
    \/ rpc = "new"
    \/ llmFailedAt # <<>>
    \/ result = Raised
    \/ TimedOut
C7_ErrorThenDone ==
    (Closed /\ Fatal) =>
        /\ out[Len(out)].type = "done"
        /\ \E i \in 1 .. Len(out) - 1 : out[i].type = "error"

\* ------------------------------------------------------ the message list
\* the invocations a history message declares (on an assistant message only)
Declared(m) == IF m.role = "assistant" THEN m.tool_calls ELSE <<>>

RECURSIVE Slots(_, _)
\* the number of messages the first k history messages take in the list
Slots(h, k) == IF k = 0 THEN 0 ELSE Slots(h, k - 1) + 1 + Len(Declared(h[k]))

ToolMsgs(ms, id) ==
    {j \in DOMAIN ms : ms[j].role = "tool" /\ ms[j].tool_call_id = id}
DeclaredAs(h, id) ==
    {<<k, n>> \in (DOMAIN h) \X (1 .. MaxHistCalls + 1) :
        n <= Len(Declared(h[k])) /\ Declared(h[k])[n].id = id}
ExpectedContent(tc) ==
    IF tc.result \in {NoResult, ""} THEN Placeholder ELSE tc.result

\* C8: in the rebuilt list every assistant message of the history is
\* followed at once by one tool message per invocation it declares, in the
\* declared order, with the invocation's id and its recorded result or
\* "(no result)"; there is no other tool message, so an id declared once
\* has exactly one.
C8_RebuildPairs ==
    rpc = "built" =>
        LET h == messages_history
            ms == messages IN
        /\ Len(ms) = Slots(h, Len(h)) + 2
        /\ \A k \in DOMAIN h :
            LET p == 1 + Slots(h, k - 1) + 1
                tcs == Declared(h[k]) IN
            /\ ms[p].role = h[k].role
            /\ ms[p].tool_calls = Ids(tcs)
            /\ \A n \in 1 .. Len(tcs) :
                /\ ms[p + n].role = "tool"
                /\ ms[p + n].tool_call_id = tcs[n].id
                /\ ms[p + n].content = ExpectedContent(tcs[n])
        /\ \A id \in HistIds :
            Cardinality(ToolMsgs(ms, id)) = Cardinality(DeclaredAs(h, id))
        /\ Cardinality({j \in DOMAIN ms : ms[j].role = "tool"})
              = Slots(h, Len(h)) - Len(h)

C8_Witness ==
    /\ rpc = "built"
    /\ \E k \in DOMAIN messages_history :
        LET tcs == Declared(messages_history[k]) IN
        /\ Len(tcs) = 2
        /\ tcs[1].id # tcs[2].id
        /\ tcs[1].result = "" /\ tcs[2].result = "r"
        /\ k < Len(messages_history)
    /\ \E j \in DOMAIN messages : messages[j].content = Placeholder

\* C9: whenever a Completion call is made, each invocation recorded on an
\* assistant message of the list has exactly one tool message with its id.
C9_PairedAtCall ==
    rpc = "llm" =>
        \A i \in DOMAIN messages :
            messages[i].role = "assistant" =>
                \A n \in 1 .. Len(messages[i].tool_calls) :
                    Cardinality(ToolMsgs(messages, messages[i].tool_calls[n])) = 1

C9_Witness ==
    /\ rpc = "llm"
    /\ iteration = 3
    /\ \E i \in LoopAssistants : Len(messages[i].tool_calls) = 2
    /\ \E i \in DOMAIN messages : i <= Len(Prefix) /\ messages[i].tool_calls # <<>>

\* C10: once a Completion call has failed, run has emitted an error event
\* as its last event and returned the error text, and makes no Completion
\* call and no tool execution after the failed call.
C10_LLMFailureFatal ==
    llmFailedAt # <<>> =>
        /\ rpc = "finished"
        /\ result = LLMErrorText
        /\ EvEq(emitted[Len(emitted)], E("error", LLMError))
        /\ Count(emitted, E("error", LLMError)) = 1
        /\ calls = llmFailedAt[1]
        /\ toolExecs = llmFailedAt[2]

C10_Witness ==
    /\ llmFailedAt # <<>>
    /\ calls = 3
    /\ toolExecs = 2
    /\ Closed

\* ------------------------------------------------------------ the warm pool
Range(seq) == {seq[i] : i \in DOMAIN seq}
\* POST /warm request w is inside cleanup_expired_sandboxes
Evicting(w) == wpc[w] \in {"evict", "evict_del"}
\* the provisioning task w ends its setup in this step
SetupSucceeds(w) == tpc[w] = "setup" /\ tpc'[w] \in {"done", "cleanup"}
SetupFails(w) == tpc[w] = "setup" /\ tpc'[w] = "failed"

\* C12: cleanup_expired_sandboxes, reading the clock at time now, sets out
\* to remove exactly the entries with now - created_at > 1500, warming or
\* ready; until it returns the pool changes only by the removal of the next
\* of these entries, the sandbox of a ready one being killed by then; it
\* returns when all of them are removed, every other entry being retained.
C12_EvictExpired ==
    /\ [][\A w \in WReq :
            (wpc[w] = "idle" /\ wpc'[w] = "evict") =>
                /\ Range(wExpired'[w]) =
                      {u \in Owners : Present(u)
                          /\ now - warm_sandbox_pool[u].created_at > 1500}
                /\ warm_sandbox_pool' = warm_sandbox_pool]_vars
    /\ [][\A w \in WReq :
            Evicting(w) =>
                \/ /\ warm_sandbox_pool' = warm_sandbox_pool
                   /\ wExpired'[w] = wExpired[w]
                \/ /\ wExpired[w] # <<>>
                   /\ wExpired'[w] = Tail(wExpired[w])
                   /\ LET uid == Head(wExpired[w])
                          info == warm_sandbox_pool[uid] IN
                       /\ Present(uid)
                       /\ warm_sandbox_pool' =
                              [warm_sandbox_pool EXCEPT ![uid] = Absent]
                       /\ info.agent # None => sandbox'[info.agent] = "killed"]_vars
    /\ [][\A w \in WReq :
            (Evicting(w) /\ ~Evicting(w)') => wExpired[w] = <<>>]_vars

\* a ready entry was evicted at the age of TTL + 1 seconds
C12_Witness ==
    \E w \in WReq :
        /\ w > 1
        /\ wpc[w] = "insert_wait"
        /\ now = WARM_SANDBOX_TTL + 1
        /\ tpc[1] = "done"
        /\ sandbox[1] = "killed"
        /\ ~Present(wOwner[1])

\* C13: a provisioning task that succeeds while its owner has an entry
\* marks that entry ready and sets its sandbox id and agent in the same
\* step; one that fails leaves its owner without an entry; no entry is
\* ever ready without a handle, and the handle of a ready entry comes from
\* a provisioning that succeeded.
C13_ReadyWithHandleOrRemoved ==
    /\ [][\A w \in WReq :
            (SetupSucceeds(w) /\ Present(wOwner[w])) =>
                /\ tpc'[w] = "done"
                /\ warm_sandbox_pool' = [warm_sandbox_pool EXCEPT ![wOwner[w]] =
                      [ready |-> TRUE, sandbox_id |-> w, agent |-> w,
                       created_at |-> @.created_at]]]_vars
    /\ [][\A w \in WReq : SetupFails(w) => ~Present(wOwner[w])']_vars
    /\ [](\A u \in Owners :
            (Present(u) /\ warm_sandbox_pool[u].ready) =>
                /\ warm_sandbox_pool[u].sandbox_id # None
                /\ warm_sandbox_pool[u].agent # None
                /\ tpc[warm_sandbox_pool[u].agent] = "done")

\* one task has marked its owner's entry ready, another has failed and
\* removed the entry of its owner
C13_Witness ==
    \E w1, w2 \in WReq :
        /\ tpc[w1] = "done"
        /\ Present(wOwner[w1])
        /\ warm_sandbox_pool[wOwner[w1]].sandbox_id = w1
        /\ tpc[w2] = "failed"
        /\ ~Present(wOwner[w2])

\* C14: a provisioning task whose setup succeeds while its owner has no
\* entry inserts nothing: it keeps the lock, kills the sandbox it built and
\* ends, the pool being the same throughout.
C14_TornDownNotInserted ==
    /\ [][\A w \in WReq :
            (SetupSucceeds(w) /\ ~Present(wOwner[w])) =>
                /\ tpc'[w] = "cleanup"
                /\ warm_sandbox_pool' = warm_sandbox_pool
                /\ pool_keys' = pool_keys]_vars
    /\ [][\A w \in WReq :
            tpc[w] = "cleanup" =>
                /\ warm_sandbox_pool' = warm_sandbox_pool
                /\ pool_keys' = pool_keys
                /\ tpc'[w] # "cleanup" =>
                      tpc'[w] = "torn_down" /\ sandbox'[w] = "killed"]_vars
    /\ [](\A w \in WReq :
            tpc[w] = "torn_down" =>
                /\ sandbox[w] = "killed"
                /\ \A u \in Owners : warm_sandbox_pool[u].sandbox_id # w)

\* the entry of the owner was evicted while still warming; the task then
\* finished its setup and tore its sandbox down
C14_Witness ==
    \E w \in WReq :
        /\ tpc[w] = "torn_down"
        /\ sandbox[w] = "killed"
        /\ ~Present(wOwner[w])
        /\ now > WARM_SANDBOX_TTL

\* C15: the pool has one entry per owner in it (a key is listed once), and
\* an entry is either warming (no sandbox id, no agent, not ready) or ready
\* (sandbox id and agent set).
C15_OneEntryWarmingOrReady ==
    /\ Range(pool_keys) = {u \in Owners : Present(u)}
    /\ Len(pool_keys) = Cardinality(Range(pool_keys))
    /\ \A u \in Owners :
          Present(u) =>
            LET info == warm_sandbox_pool[u] IN
            IF info.ready
            THEN info.sandbox_id # None /\ info.agent # None
            ELSE info.sandbox_id = None /\ info.agent = None

\* two POST /warm for one owner have returned and a task has finished: the
\* owner has one entry, ready
C15_Witness ==
    \E w1, w2 \in WReq :
        /\ w1 # w2
        /\ wOwner[w1] = wOwner[w2]
        /\ wpc[w1] = "done" /\ wpc[w2] = "done"
        /\ pool_keys = <<wOwner[w1]>>
        /\ warm_sandbox_pool[wOwner[w1]].ready

\* C18: a run request that carries an explicit sandbox id leaves the pool
\* as it is when it resolves its handle, and a request takes an entry out
\* of the pool only if the entry is ready.
C18_ExplicitLeavesEntry ==
    /\ [][\A s \in SReq :
            (Claims(s) /\ sExplicit'[s]) =>
                /\ warm_sandbox_pool' = warm_sandbox_pool
                /\ pool_keys' = pool_keys]_vars
    /\ [][\A s \in SReq :
            (Claims(s) /\ warm_sandbox_pool' # warm_sandbox_pool) =>
                warm_sandbox_pool[sOwner'[s]].ready]_vars

\* ------------------------------------------------------- tool executors
\* C11: run never ends by an exception of a tool executor: every
\* invocation of the current response that has been executed, whatever its
\* executor did, has its tool message with the text the executor yielded.
C11_ToolFailureNotFatal ==
    /\ result # Raised
    /\ rpc = "tool" =>
          \A i \in 1 .. tcIdx - 1 :
              Cardinality({j \in DOMAIN messages :
                    /\ messages[j].role = "tool"
                    /\ messages[j].tool_call_id = batch[i].id
                    /\ messages[j].content = ToolText(batch[i].kind)}) = 1

\* ------------------------------------------------------ the outward stream
\* the events of the stream that are not status events
RunEvents == SelectSeq(out, LAMBDA e : e.type # "status")
SameEvents(a, b) ==
    /\ Len(a) = Len(b)
    /\ \A i \in DOMAIN a : EvEq(a[i], b[i])

RECURSIVE ToolRounds(_)
\* k times thinking, tool_call, tool_result; the k-th invocation has id k
ToolRounds(k) ==
    IF k = 0 THEN <<>>
    ELSE ToolRounds(k - 1)
         \o <<E("thinking", k), E("tool_call", k), E("tool_result", k)>>

\* the Completion answered with one plain invocation each time, then with
\* a content-only response, and the gateway met no idle timeout
NominalRun ==
    /\ rpc = "finished"
    /\ llmFailedAt = <<>>
    /\ specials = 0
    /\ result \notin {Raised, Sentinel}
    /\ ~TimedOut

C20_TimeoutThenDone ==
    /\ [][(~TimedOut /\ TimedOut') =>
            /\ Len(out') = Len(out) + 1
            /\ SubSeq(out', 1, Len(out)) = out
            /\ EvEq(out'[Len(out')], E("error", TimeoutText))
            /\ rpc' = rpc /\ rpc # "finished"
            /\ result' = result]_vars
    /\ [][TimedOut =>
            \/ out' = out
            \/ /\ rpc = "finished" /\ result # NotReturned
               /\ Len(out') = Len(out) + 1
               /\ SubSeq(out', 1, Len(out)) = out
               /\ out'[Len(out')].type = "done"
               /\ Closed']_vars

\* the wait timed out during the first Completion call; the run task went
\* on with a tool and a second call and returned; its events and its
\* result stayed in the queue
C20_Witness ==
    /\ Closed
    /\ TimedOut
    /\ result = "final"
    /\ calls = 2
    /\ \A i \in DOMAIN out : out[i].type # "tool_call"
    /\ \E i \in DOMAIN event_queue : event_queue[i].type = "_final_result"

\* ------------------------------------------------- the handle of a request
IsReady(e) == e.type = "status" /\ e.v[1] = "Ready"
\* the request is over: the stream is closed, or POST /run has answered
Over == gpc \in {"closed", "returned", "raised"}

C19_HandleKeptNotPooled ==
    /\ []((Over /\ sandbox_id # None) =>
            /\ sandbox[sandbox_id] = "alive"
            /\ \A u \in Owners : warm_sandbox_pool[u].sandbox_id # sandbox_id)
    /\ [][(~Over /\ Over') =>
            /\ \A i \in Sandboxes : sandbox[i] = "alive" => sandbox'[i] = "alive"
            /\ warm_sandbox_pool' = warm_sandbox_pool
            /\ pool_keys' = pool_keys]_vars

\* the stream of a request that reconnected to the sandbox it named was
\* closed after an idle timeout
C19_Witness ==
    /\ Closed
    /\ TimedOut
    /\ rpc = "finished"
    /\ sandbox_id = Earlier
    /\ sandbox[Earlier] = "alive"

\* ------------------------------------------------- undecodable arguments
\* the run task is executing the invocation batch[tcIdx]
Executing == rpc = "tool"
\* the run task took a step
RunSteps == <<rpc, tcIdx, iteration, emitted>>' # <<rpc, tcIdx, iteration, emitted>>

\* C23: an invocation whose arguments are not decodable JSON is executed
\* with empty arguments: its tool_call event is emitted, the execution gets
\* the arguments {} and returns, the tool_result of the same id is emitted
\* and its tool message appended, and the run goes on (next invocation, next
\* Completion call, or the sentinel after the last iteration).
C23_BadJsonEmptyArgs ==
    /\ []((Executing /\ batch[tcIdx].kind = "badjson") =>
            /\ EvEq(emitted[Len(emitted)], E("tool_call", batch[tcIdx].id))
            /\ Decode(batch[tcIdx].kind) = EmptyArgs
            /\ ~Raises(Decode(batch[tcIdx].kind)))
    /\ [][(Executing /\ batch[tcIdx].kind = "badjson" /\ RunSteps) =>
            /\ Count(emitted', E("tool_result", batch[tcIdx].id)) = 1
            /\ Cardinality(ToolMsgs(messages', batch[tcIdx].id)) = 1
            /\ result' # Raised
            /\ \/ rpc' \in {"tool", "llm"}
               \/ rpc' = "finished" /\ result' = Sentinel /\ iteration = MAX_ITERATIONS]_vars

\* an invocation with undecodable arguments was executed and the next
\* Completion call gave the final content
C23_Witness ==
    /\ rpc = "finished"
    /\ result = "final"
    /\ batch # <<>>
    /\ batch[Len(batch)].kind = "badjson"
    /\ Count(emitted, E("tool_call", batch[Len(batch)].id)) = 1
    /\ Count(emitted, E("tool_result", batch[Len(batch)].id)) = 1

\* ------------------------------------------------ order within an iteration
\* the last event the run emitted is the tool_call of the invocation id
Announced(em, id) == em # <<>> /\ EvEq(em[Len(em)], E("tool_call", id))
\* the events a step of the run emits
NewEvents == SubSeq(emitted', Len(emitted) + 1, Len(emitted'))
LastMessage(ms) == ms[Len(ms)]

\* C29: the invocations are handled one at a time, in the order of the
\* response.  While an invocation executes, its tool_call is the last event
\* emitted; no step of the run emits anything between a tool_call and the
\* tool_result of the same id other than the file event of that id; the
\* step that emits the tool_result appends the tool message of that id, and
\* only then announces the next invocation of the response, which is the
\* next one in its order (or ends the batch).
C29_OneAtATimeInOrder ==
    /\ [](Executing => Announced(emitted, batch[tcIdx].id))
    /\ []((~Executing /\ emitted # <<>>) =>
             emitted[Len(emitted)].type # "tool_call" \/ result = Raised)
    /\ [][emitted' # emitted =>
            LET new == NewEvents
                n == Len(new)
            IN
            /\ \A i \in 1 .. n - 1 : new[i].type # "tool_call"
            /\ IF Executing
               THEN LET id == batch[tcIdx].id
                        r == IF new[1].type = "file" THEN 2 ELSE 1
                    IN
                    /\ r <= n
                    /\ EvEq(new[r], E("tool_result", id))
                    /\ r = 2 => new[1].v = id
                    /\ \A i \in r + 1 .. n : new[i].type \notin {"tool_result", "file"}
                    /\ Len(messages') = Len(messages) + 1
                    /\ LastMessage(messages').role = "tool"
                    /\ LastMessage(messages').tool_call_id = id
                    /\ new[n].type = "tool_call" =>
                          /\ batch' = batch
                          /\ tcIdx' = tcIdx + 1
               ELSE /\ \A i \in 1 .. n : new[i].type \notin {"tool_result", "file"}
                    /\ new[n].type = "tool_call" => tcIdx' = 1
            /\ new[n].type = "tool_call" =>
                  /\ Executing'
                  /\ new[n].v = batch'[tcIdx'].id
                  /\ toolExecs' = toolExecs + 1
            /\ new[n].type # "tool_call" => toolExecs' = toolExecs]_vars
    /\ [][emitted' = emitted =>
            /\ toolExecs' = toolExecs
            /\ messages' # messages => ~Executing]_vars

\* the second invocation of a response with two invocations is executing:
\* the first has its tool_result and its tool message
C29_Witness ==
    /\ Executing
    /\ tcIdx = 2
    /\ Count(emitted, E("tool_result", batch[1].id)) = 1
    /\ ToolMsgs(messages, batch[1].id) # {}
    /\ Announced(emitted, batch[2].id)

\* ------------------------------------------------- content-only response
\* the Completion call returned a response without tool invocations
ContentStep == rpc = "llm" /\ rpc' = "finished" /\ llmFailedAt' = llmFailedAt

\* C30: on a content-only response the run emits one message event with the
\* content (the empty text for no content), the only message event of the
\* run, and returns that content; the message list is left as it is; after
\* the return the run makes no Completion call, executes no tool and emits
\* nothing.
C30_ContentEndsRun ==
    /\ [][ContentStep =>
            /\ result' \in {"final", ""}
            /\ SameEvents(NewEvents, <<E("message", result')>>)
            /\ \A i \in DOMAIN emitted : emitted[i].type # "message"
            /\ calls' = calls
            /\ toolExecs' = toolExecs
            /\ messages' = messages]_vars
    /\ [][rpc = "finished" =>
            /\ rpc' = "finished"
            /\ result' = result
            /\ emitted' = emitted
            /\ calls' = calls
            /\ toolExecs' = toolExecs]_vars

\* after two tool-requesting responses the third response had content only
C30_Witness ==
    /\ rpc = "finished"
    /\ result = "final"
    /\ calls = 3
    /\ toolExecs >= 2
    /\ EvEq(emitted[Len(emitted)], E("message", "final"))
    /\ Count(emitted, E("message", "final")) = 1

\* -------------------------------------------------- claim against eviction
\* C25: claim and eviction never act on an entry at once.  From the
\* selection of the expired entries to the last deletion the evicting
\* request holds the pool lock; a claim is made only when nobody holds the
\* lock, so not while an eviction is under way; and the sandbox a run request
\* was handed by the claim is never torn down.
C25_ClaimExcludesEvict ==
    /\ [](\A w \in WReq : Evicting(w) => warm_sandbox_lock = <<"warm", w>>)
    /\ [][\A s \in SReq : Claims(s) =>
            /\ warm_sandbox_lock = Free
            /\ \A w \in WReq : ~Evicting(w)]_vars
    /\ [](\A s \in SReq : Received(s) => sandbox[sWarm[s].sandbox_id] = "alive")
    /\ [][\A w \in WReq : (wpc[w] = "evict" /\ wpc'[w] = "evict_del") =>
            \A i \in Sandboxes : sandbox'[i] # sandbox[i] =>
                /\ i \notin Claimed
                /\ warm_sandbox_pool[Head(wExpired[w])].agent = i]_vars

\* a run request holds the sandbox it claimed, and the sandbox of an
\* earlier entry, which had been made ready, was torn down by an eviction
C25_Witness ==
    \E s \in SReq, w \in WReq :
        /\ Received(s)
        /\ sandbox[sWarm[s].sandbox_id] = "alive"
        /\ tpc[w] = "done"
        /\ sandbox[w] = "killed"

StatusAnswers == lastStatus' # lastStatus

\* C27: GET /warm/status can answer in every state, whoever holds the pool
\* lock; answering changes neither the pool nor the lock nor any sandbox;
\* the answer is none for an owner without entry, warming for an entry not
\* ready, ready with the sandbox id of the entry otherwise.
C27_StatusReadOnly ==
    /\ [](\A u \in Owners : ENABLED warm_status(u))
    /\ [][StatusAnswers =>
            /\ warm_sandbox_pool' = warm_sandbox_pool
            /\ pool_keys' = pool_keys
            /\ warm_sandbox_lock' = warm_sandbox_lock
            /\ sandbox' = sandbox
            /\ tpc' = tpc
            /\ \E u \in Owners :
                 LET info == warm_sandbox_pool[u] IN
                 \/ /\ info = Absent
                    /\ lastStatus' = [status |-> "none", sandbox_id |-> None]
                 \/ /\ info # Absent
                    /\ ~info.ready
                    /\ lastStatus' = [status |-> "warming", sandbox_id |-> None]
                 \/ /\ info # Absent
                    /\ info.ready
                    /\ info.sandbox_id # None
                    /\ lastStatus' = [status |-> "ready",
                                      sandbox_id |-> info.sandbox_id]]_vars

\* the status of a ready entry is at hand while a coroutine holds the lock
C27_Witness ==
    /\ warm_sandbox_lock # Free
    /\ lastStatus.status = "ready"
    /\ \E u \in Owners :
          /\ Present(u)
          /\ warm_sandbox_pool[u].sandbox_id = lastStatus.sandbox_id

\* ---------------------------------------------------------- other owners
\* the entries and the keys of the owners other than uid
OthersSame(uid) ==
    /\ \A u \in Owners \ {uid} : warm_sandbox_pool'[u] = warm_sandbox_pool[u]
    /\ SelectSeq(pool_keys', LAMBDA k : k # uid)
         = SelectSeq(pool_keys, LAMBDA k : k # uid)
\* the provisioning task w ends its setup, or the teardown after it
TaskSteps(w) == tpc[w] \in {"setup", "cleanup"} /\ tpc'[w] # tpc[w]

Called == setupRet.log # <<>>
RaisesIn(ops) == \E i \in DOMAIN ops : remote[ops[i]] = "raises"
Started(op) == \E i \in DOMAIN setupRet.log : setupRet.log[i] = op

\* C21: an agent with an existing sandbox id starts with the connect to it
\* (an agent without one with the creation).  When no step of the reconnect
\* raises, setup returns the existing id with sandbox_reused set and creates
\* nothing; a failure a step handles itself does not end the reconnect.
\* When the connect or a later step of the reconnect raises, setup goes on
\* to create a sandbox and sandbox_reused stays false.  setup raises exactly
\* when a step of the creation raises; otherwise it returns the created id.
C21_ReconnectThenCreate ==
    Called =>
        LET existing == selfAgent.existing_sandbox_id IN
        /\ setupRet.log[1] = (IF existing # None THEN "re.connect" ELSE "new.create")
        /\ (existing # None /\ ~RaisesIn(ReconnectOps)) =>
              /\ ~setupRet.raised
              /\ setupRet.value = existing
              /\ selfAgent.sandbox = existing
              /\ selfAgent.sandbox_reused
              /\ ~Started("new.create")
        /\ (existing # None /\ RaisesIn(ReconnectOps)) =>
              /\ Started("new.create")
              /\ ~selfAgent.sandbox_reused
        /\ existing = None => ~selfAgent.sandbox_reused
        /\ Started("new.create") =>
              /\ setupRet.raised <=> RaisesIn(CreateOps)
              /\ ~setupRet.raised =>
                    /\ setupRet.value = Created
                    /\ selfAgent.sandbox = Created

\* the connect worked, the upload of the files raised, and setup returned a
\* created sandbox
C21_Witness ==
    /\ Called
    /\ selfAgent.existing_sandbox_id = Earlier
    /\ remote["re.connect"] = "ok"
    /\ remote["re._upload_files"] = "raises"
    /\ setupRet.value = Created
    /\ ~selfAgent.sandbox_reused

\* ------------------------------------------------------ the cut of a result
Handled == appended # NotYet

\* C22: a result of more than 8000 characters goes to the message list as
\* its first 8000 characters followed by the marker, a result of at most
\* 8000 characters as it is; the tool_result event carries the result as it
\* is when it has at most 1000 characters, and otherwise its first 1000
\* characters followed by "...", whether the result was cut at 8000 or not.
C22_CutAtLimits ==
    Handled =>
        LET n == Len(toolResult) IN
        /\ n > ResultLimit =>
              /\ Len(appended) = ResultLimit + Len(TruncationMarker)
              /\ SubSeq(appended, 1, ResultLimit) = SubSeq(toolResult, 1, ResultLimit)
              /\ SubSeq(appended, ResultLimit + 1, Len(appended)) = TruncationMarker
        /\ n <= ResultLimit => appended = toolResult
        /\ n > EventLimit =>
              /\ Len(shown) = EventLimit + Len(Ellipsis)
              /\ SubSeq(shown, 1, EventLimit) = SubSeq(toolResult, 1, EventLimit)
              /\ SubSeq(shown, EventLimit + 1, Len(shown)) = Ellipsis
        /\ n <= EventLimit => shown = toolResult

\* a result of 8001 characters was cut for the list and for the event
C22_Witness ==
    /\ Handled
    /\ Len(toolResult) = ResultLimit + 1
    /\ Len(appended) = ResultLimit + Len(TruncationMarker)
    /\ Len(shown) = EventLimit + Len(Ellipsis)

\* ------------------------------------------------- one session per sandbox
\* the run requests whose agent works on the sandbox x, and the
\* provisioning task that builds it
SessionsOn(x) == {s \in SReq : session[s] = x}
Provisioning(x) == {w \in WReq : w = x /\ tpc[w] = "setup"}

\* C24: at every instant at most one agent, of a provisioning task or of a
\* run request, works on a sandbox.
C24_OneSessionPerSandbox ==
    \A x \in Sandboxes :
        Cardinality(SessionsOn(x)) + Cardinality(Provisioning(x)) <= 1

\* ------------------------------------------------------- thinking events
ThinkingIn(evs) == {i \in DOMAIN evs : evs[i].type = "thinking"}

\* C31: each Completion call is preceded, in the same step of the run, by
\* one thinking event that carries the number of the call; no thinking event
\* is emitted otherwise; there are at most 15 calls.  So the thinking events
\* of a run carry 1, 2, ..., k in order, k at most 15.
C31_ThinkingNumbered ==
    /\ [][calls' # calls =>
            /\ calls' = calls + 1
            /\ calls' <= MAX_ITERATIONS
            /\ emitted' # emitted
            /\ ThinkingIn(NewEvents) = {Len(NewEvents)}
            /\ NewEvents[Len(NewEvents)].v = calls']_vars
    /\ [][(calls' = calls /\ emitted' # emitted) => ThinkingIn(NewEvents) = {}]_vars
    /\ [](\A i \in ThinkingIn(emitted) : emitted[i].v \in 1 .. calls)

\* a run of 15 tool-requesting responses: thinking 1 up to thinking 15
C31_Witness ==
    /\ rpc = "finished"
    /\ calls = MAX_ITERATIONS
    /\ Cardinality(ThinkingIn(emitted)) = MAX_ITERATIONS
    /\ emitted[1].v = 1
    /\ \E i \in ThinkingIn(emitted) : emitted[i].v = MAX_ITERATIONS

\* ------------------------------------------------------- orphaned sandboxes
\* the pool entry of some owner holds sandbox w
HeldByPool(w) == \E u \in Owners : warm_sandbox_pool[u].sandbox_id = w

\* C32: every sandbox a provisioning task created is held by a pool entry,
\* was taken by a run request, has been torn down, or is being torn down by
\* its task.
C32_NoOrphan ==
    \A w \in WReq :
        sandbox[w] = "alive" =>
            \/ HeldByPool(w)
            \/ w \in Claimed
            \/ tpc[w] = "cleanup"

\* ------------------------------------------------- tasks of one owner
\* the provisioning tasks of owner u that have not ended
InFlight(u) == {w \in WReq : wOwner[w] = u /\ tpc[w] \in {"setup", "cleanup"}}

\* C34: at most one provisioning task per owner is in flight.
C34_OneTaskPerOwner == \A u \in Owners : Cardinality(InFlight(u)) <= 1

\* ---------------------------------------------------- age of a claimed entry
\* the age, when request s arrives, of the entry of the owner it names
AgeAtClaim(s) == now - warm_sandbox_pool[sOwner'[s]].created_at

\* C35: a run request that receives a warm handle receives one whose entry
\* is at most WARM_SANDBOX_TTL seconds old.
C35_ClaimWithinTTL ==
    [][\A s \in SReq :
          (Claims(s) /\ Received(s)') => AgeAtClaim(s) <= WARM_SANDBOX_TTL]_vars

\* ------------------------------------------------------ handles and owners
\* C38: the warm handle a run request receives was provisioned by a task
\* started for the owner the request names.
C38_HandleOfSameOwner ==
    \A s \in SReq :
        Received(s) => wOwner[sWarm[s].sandbox_id] = sOwner[s]

\* a request receives a warm handle while a sandbox warmed for another owner
\* exists
C38_Witness ==
    \E s \in SReq, w \in WReq :
        /\ Received(s)
        /\ wOwner[w] # sOwner[s]
        /\ sandbox[w] = "alive"

\* ------------------------------------------------- a task and its own entry
\* a step of the task of request w changes the pool entry of its owner
ChangesEntry(w) ==
    /\ TaskSteps(w)
    /\ warm_sandbox_pool'[wOwner[w]] # warm_sandbox_pool[wOwner[w]]

\* C33: a provisioning task changes (marks ready or deletes) only the entry
\* that its own POST /warm inserted.
C33_OwnEntryOnly ==
    [][\A w \in WReq : ChangesEntry(w) => insertedBy[wOwner[w]] = w]_vars

\* ------------------------------------------------ tool calls and results
\* the tool_call events of the outward stream that no later tool_result
\* with the same id follows
Unanswered ==
    {i \in DOMAIN out :
        /\ out[i].type = "tool_call"
        /\ ~\E j \in i + 1 .. Len(out) :
              out[j].type = "tool_result" /\ out[j].v = out[i].v}

\* C37: when the stream is closed without an idle timeout, every tool_call
\* event on it is followed by a tool_result event with the same id.
C37_CallThenResult == (Closed /\ ~TimedOut) => Unanswered = {}

\* ------------------------------------------------- POST /run and the pool
\* where the handler of POST /run is once agent.setup() was called
RunAgentStates == {"run", "returned", "raised"}
PoolDict == <<warm_sandbox_pool, pool_keys, warm_sandbox_lock>>

\* C39: no step of POST /run changes the pool, its lock, or what the
\* request holds of a warm entry; the request calls agent.setup() once and
\* does not use a warm agent; the ready entry of the owner the request names
\* is in the pool while the request runs and after it.
C39_RunLeavesPool ==
    /\ [][gpc' \in RunAgentStates =>
            /\ PoolDict' = PoolDict
            /\ sWarm' = sWarm
            /\ using_warm' = using_warm]_vars
    /\ [](gpc \in RunAgentStates =>
            /\ setups = 1
            /\ ~using_warm[Req] /\ ~Received(Req)
            /\ sOwner[Req] = "u1" =>
                  warm_sandbox_pool["u1"] = MarkReady(WarmingEntry(0), 1, 1))

\* POST /run of u1 has returned; the ready entry of u1 is in the pool
C39_Witness ==
    /\ gpc = "returned"
    /\ sOwner[Req] = "u1"
    /\ warm_sandbox_pool["u1"].ready
    /\ sandbox_id = Fresh(Req)

\* ------------------------------------------------------- warming ends
Warming(u) == Present(u) /\ ~warm_sandbox_pool[u].ready

\* C36: under fair scheduling a warming entry becomes ready or is removed,
\* and a held pool lock is released.
C36_WarmingEnds ==
    /\ \A u \in Owners : Warming(u) ~> ~Warming(u)
    /\ (warm_sandbox_lock # Free) ~> (warm_sandbox_lock = Free)

\* two entries were warming at once and both have become ready, by tasks
\* that had to wait for the lock
C36_Witness ==
    /\ \A u \in Owners : Present(u) /\ warm_sandbox_pool[u].ready
    /\ \A w \in WReq : tpc[w] = "done"
    /\ warm_sandbox_lock = Free

====
